---- MODULE Spec2Model ----
(***************************************************************************)
(* A model of the tiered extraction engine of the PDF purchase-order       *)
(* converter: the orchestrator extract_table_rows (core/parser.py), its    *)
(* caller extract_data_from_pdf (app.py), the three extraction tiers with  *)
(* their row normalisation and de-duplication, and the QA validator        *)
(* run_qa_checks (core/validator.py).                                      *)
(*                                                                         *)
(* Python values are represented as follows.                               *)
(*  - a str is a sequence of one-character strings (<<"4","2">> is "42"),  *)
(*    so that trimming, searching and parsing are computed and not         *)
(*    assumed; field names and messages, which the code never takes apart, *)
(*    are plain TLA+ strings;                                              *)
(*  - a float is an integer number of thousandths (7.50 is 7500); a value  *)
(*    that is a number, a str or None is a record [t, n, s];               *)
(*  - a list of rows returned by a tier is a record [isList, hasHeader,    *)
(*    items]: hasHeader says that element 0 of the list IS the module's    *)
(*    HEADER object (the code returns [HEADER] + rows, which shares the    *)
(*    list object), items are the elements after it.                       *)
(***************************************************************************)
EXTENDS Integers, Sequences, FiniteSets, TLC

VARIABLES
    HEADER,     \* parser.HEADER, the module-level list of column names
    doc,        \* the document of the current extract_table_rows call
    pc,         \* position of the call: idle, position, table, regex, done, error
    caller,     \* who made the call: none, direct, app
    invoked,    \* history of the current call: the tiers invoked and what each gave
    result,     \* the list extract_table_rows returned (a rows record)
    prev,       \* history: the document and the returned value of the first call
    appOut,     \* outcome of the last extract_data_from_pdf
    tierDoc,    \* the document a tier is run on by itself
    tierRun,    \* what that run did: the rows it built, in scan order, and its result
    qaIn,       \* the table and the metadata given to run_qa_checks
    qaOut,      \* what run_qa_checks did with them
    upcIn,      \* the value _upc_ok is called with
    upcOut,     \* what _upc_ok returned for it: none, True or False
    pdf,        \* the document whose text is read
    metaOut,    \* what extract_header_meta returned for it, and the page texts it had
    regexOut,   \* what _extract_via_regex returned for it
    _configured,\* logging_config._configured of each of the two modules
    logPc,      \* where each thread is in setup_logging
    applied,    \* history: how often dictConfig applied each module's configuration
    logCalls,   \* history: the number of setup_logging calls made
    clock,      \* the second datetime.now() is in
    uploads,    \* the files of temp_uploads
    outputs,    \* the files of temp_outputs
    reqs,       \* the /api/convert requests
    sheetIn,    \* the rows of the table given to write_to_excel
    sheetOut,   \* the rows of the size sheet it wrote
    hdrIn,      \* the words given to _find_header_and_columns
    hdrOut,     \* what it returned
    bandIn,     \* the words of a page to be grouped into line bands
    bandOut,    \* the bands the two functions made of them
    tabIn,      \* a document whose table rows have any number of cells
    tabOut,     \* what the table tier returned for it
    dedIn,      \* a list of rows given to _dedupe
    dedOut      \* what _dedupe returned for it

orchVars == <<HEADER, doc, pc, caller, invoked, result, prev, appOut>>

tierVars == <<tierDoc, tierRun>>

qaVars == <<qaIn, qaOut>>

upcVars == <<upcIn, upcOut>>

\* The variables of the components other than the parser and run_qa_checks.
textVars == <<pdf, metaOut, regexOut>>

logVars == <<_configured, logPc, applied, logCalls>>

appVars == <<clock, uploads, outputs, reqs>>

sheetVars == <<sheetIn, sheetOut>>

\* The variables of the other components that run on their own.
hdrVars == <<hdrIn, hdrOut>>

bandVars == <<bandIn, bandOut>>

tabVars == <<tabIn, tabOut>>

dedVars == <<dedIn, dedOut>>

restVars == <<sheetVars, hdrVars, bandVars, tabVars, dedVars>>

auxVars == <<upcVars, textVars, logVars, appVars, restVars>>

vars == <<orchVars, tierVars, qaVars, auxVars>>

\* parser.py:27-37, the value HEADER is constructed with.
CanonicalHeader ==
    <<"Qty", "Item_SKU", "Dev_Code", "UPC", "HTS_Code",
      "Brand", "Description", "Rate", "Amount">>

----------------------------------------------------------------------------
(* Bounds *)

\* Largest number of item rows a tier's candidate carries in the orchestrator runs.
MaxItems == 5

\* Number of in-place changes a caller makes to a returned header (SpecCaller).
MaxMutations == 1

----------------------------------------------------------------------------
(* Lists of rows *)

\* [HEADER] + items: element 0 is the HEADER object itself.
WithHeader(items) == [isList |-> TRUE, hasHeader |-> TRUE, items |-> items]

\* A list that does not start with the HEADER object ([] or a test's own rows).
PlainList(items) == [isList |-> TRUE, hasHeader |-> FALSE, items |-> items]

\* A value that is not a list (tests pass None, 123, "not a list").
NotAList == [isList |-> FALSE, hasHeader |-> FALSE, items |-> <<>>]

\* len(rows)
LenRows(rows) == (IF rows.hasHeader THEN 1 ELSE 0) + Len(rows.items)

\* The elements of the list as a reader sees them now: element 0 is read through
\* the shared HEADER object.
Elems(rows) == IF rows.hasHeader THEN <<HEADER>> \o rows.items ELSE rows.items

----------------------------------------------------------------------------
(* Strings: a str is a sequence of one-character strings *)

Digits == {"0", "1", "2", "3", "4", "5", "6", "7", "8", "9"}

UpperLetters ==
    <<"A", "B", "C", "D", "E", "F", "G", "H", "I", "J", "K", "L", "M",
      "N", "O", "P", "Q", "R", "S", "T", "U", "V", "W", "X", "Y", "Z">>

LowerLetters ==
    <<"a", "b", "c", "d", "e", "f", "g", "h", "i", "j", "k", "l", "m",
      "n", "o", "p", "q", "r", "s", "t", "u", "v", "w", "x", "y", "z">>

IsUpper(c) == \E i \in 1..26 : UpperLetters[i] = c

IsLower(c) == \E i \in 1..26 : LowerLetters[i] = c

\* \s of the re module, for the characters the documents carry.
IsSpace(c) == c \in {" ", "\n", "\t"}

\* \w of the re module.
IsWordChar(c) == c \in Digits \/ IsUpper(c) \/ IsLower(c) \/ c = "_"

DigitVal(c) ==
    CASE c = "0" -> 0 [] c = "1" -> 1 [] c = "2" -> 2 [] c = "3" -> 3 [] c = "4" -> 4
      [] c = "5" -> 5 [] c = "6" -> 6 [] c = "7" -> 7 [] c = "8" -> 8 [] c = "9" -> 9

\* c.lower()
LowerChar(c) ==
    IF IsUpper(c) THEN LowerLetters[CHOOSE i \in 1..26 : UpperLetters[i] = c] ELSE c

\* s.lower()
Lower(s) == [i \in 1..Len(s) |-> LowerChar(s[i])]

\* s.upper(), on the letters
UpperChar(c) ==
    IF IsLower(c) THEN UpperLetters[CHOOSE i \in 1..26 : LowerLetters[i] = c] ELSE c

\* The None of a cell or of a string argument.
NoneStr == <<"<None>">>

AllDigits(s) == \A i \in 1..Len(s) : s[i] \in Digits

\* The value of a run of decimal digits.
RECURSIVE DecVal(_)
DecVal(ds) ==
    IF ds = <<>> THEN 0
    ELSE 10 * DecVal(SubSeq(ds, 1, Len(ds) - 1)) + DigitVal(ds[Len(ds)])

RECURSIVE LStrip(_)
LStrip(s) == IF s # <<>> /\ IsSpace(Head(s)) THEN LStrip(Tail(s)) ELSE s

RECURSIVE RStrip(_)
RStrip(s) ==
    IF s # <<>> /\ IsSpace(s[Len(s)]) THEN RStrip(SubSeq(s, 1, Len(s) - 1)) ELSE s

\* s.strip()
Strip(s) == RStrip(LStrip(s))

\* re.sub(r"\s+", " ", s): a run of whitespace leaves one blank, at the
\* place of its first character.
CollapseWs(s) ==
    LET kept == SelectSeq([i \in 1..Len(s) |-> i],
                          LAMBDA i : ~IsSpace(s[i]) \/ i = 1 \/ ~IsSpace(s[i - 1]))
    IN  [k \in 1..Len(kept) |-> IF IsSpace(s[kept[k]]) THEN " " ELSE s[kept[k]]]

\* sub in s
Contains(s, sub) ==
    \E i \in 1..(Len(s) - Len(sub) + 1) : SubSeq(s, i, i + Len(sub) - 1) = sub

\* s.startswith(p)
StartsWith(s, p) == Len(s) >= Len(p) /\ SubSeq(s, 1, Len(p)) = p

\* sep.join(parts)
RECURSIVE Join(_, _)
Join(parts, sep) ==
    IF parts = <<>> THEN <<>>
    ELSE IF Len(parts) = 1 THEN parts[1]
    ELSE parts[1] \o sep \o Join(Tail(parts), sep)

\* s.replace(c, "") for a one-character c
Remove(s, c) == SelectSeq(s, LAMBDA x : x # c)

\* parser.py:638-649
_clean_ws(s) == IF s = NoneStr THEN <<>> ELSE CollapseWs(Strip(s))

----------------------------------------------------------------------------
(* Numbers *)

\* A Python value that is an int or a float (n, floats in thousandths), a str
\* (s) or None.
Num(v) == [t |-> "num", n |-> v, s |-> <<>>]

Str(x) == [t |-> "str", n |-> 0, s |-> x]

NoneV == [t |-> "none", n |-> 0, s |-> <<>>]

\* `x if x is not None else ""`
OrEmpty(x) == IF x = NoneV THEN Str(<<>>) ELSE x

Abs(x) == IF x < 0 THEN -x ELSE x

\* The product as it is, not rounded.
Round2Identity(x) == x

\* round(x, 2) of a float given in thousandths: to the nearest hundredth, a tie
\* to the even one (a tie that is an exact double, such as 0.125; the
\* documents carry no other tie).
Round2(x) ==
    LET a == Abs(x)
        q == a \div 10
        r == a % 10
        up == r > 5 \/ (r = 5 /\ q % 2 = 1)
        m == (IF up THEN q + 1 ELSE q) * 10
    IN  IF x < 0 THEN -m ELSE m

\* int(n) for n made of digits and "-": -?[0-9]+, anything else is a ValueError.
IntLiteral(n) ==
    IF n = <<>> THEN NoneV
    ELSE IF AllDigits(n) THEN Num(DecVal(n))
    ELSE IF Head(n) = "-" /\ Len(n) > 1 /\ AllDigits(Tail(n)) THEN Num(-DecVal(Tail(n)))
    ELSE NoneV

\* parser.py:676-693
_to_int(s) ==
    IF s = NoneStr \/ s = <<>> THEN NoneV
    ELSE LET n == SelectSeq(s, LAMBDA c : c \in Digits \/ c = "-")
         IN  IF n = <<>> \/ n = <<"-">> THEN NoneV ELSE IntLiteral(n)

\* The fraction digits of a float literal, in thousandths.
FracVal(ds) ==
    LET d3 == SubSeq(ds \o <<"0", "0", "0">>, 1, 3)
    IN  DecVal(d3)

\* float(s) for s made of digits, ".", "+", "-" and blanks: the value in
\* thousandths of [+-]?(digits[.digits] | .digits), None for a ValueError.
\* (The documents carry no "e", "inf", "nan" or "_", and at most three decimals.)
FloatLiteral(s0) ==
    LET s == Strip(s0)
        signed == s # <<>> /\ Head(s) \in {"+", "-"}
        body == IF signed THEN Tail(s) ELSE s
        dots == {i \in 1..Len(body) : body[i] = "."}
        ip == IF dots = {} THEN body ELSE SubSeq(body, 1, (CHOOSE i \in dots : TRUE) - 1)
        fp == IF dots = {} THEN <<>>
              ELSE SubSeq(body, (CHOOSE i \in dots : TRUE) + 1, Len(body))
        ok == /\ Cardinality(dots) <= 1
              /\ AllDigits(ip) /\ AllDigits(fp)
              /\ Len(ip) + Len(fp) >= 1
        v == DecVal(ip) * 1000 + FracVal(fp)
    IN  IF ~ok THEN NoneV
        ELSE IF signed /\ Head(s) = "-" THEN Num(-v) ELSE Num(v)

\* parser.py:652-673
_to_float(s) ==
    IF s = NoneStr \/ s = <<>> THEN NoneV
    ELSE LET s2 == Strip(Remove(Remove(s, "$"), ","))
             up == [i \in 1..Len(s2) |-> UpperChar(s2[i])]
             s3 == IF StartsWith(up, <<"U", "S", "D">>)
                   THEN Strip(SubSeq(s2, 4, Len(s2))) ELSE s2
         IN  FloatLiteral(s3)

----------------------------------------------------------------------------
(* The orchestrator: extract_table_rows *)

\* The three tiers in the order extract_table_rows calls them.
TierOrder == <<"position", "table", "regex">>

\* What a call of a tier gives: it raises, or it returns a value.
Raised == [kind |-> "raise", val |-> NotAList]

Returned(v) == [kind |-> "return", val |-> v]

\* An item row of a candidate, as the tests' tiers build them: the SKU names
\* the tier, the UPC numbers the row.
StubRow(tier, i) == <<1, tier, "D1", i, "", "Brand", "Desc", 10000, 10000>>

\* The outcomes a tier can have on a document: an exception, a value that is
\* not a list, or [HEADER] + n item rows.
TierOutcomes(tier) ==
    {Raised, Returned(NotAList)}
    \cup {Returned(WithHeader([i \in 1..n |-> StubRow(tier, i)])) : n \in 0..MaxItems}

\* A document, as seen by the orchestrator: what each tier gives on it.
Docs ==
    {[position |-> p, table |-> t, regex |-> r] :
        p \in TierOutcomes("position"),
        t \in TierOutcomes("table"),
        r \in TierOutcomes("regex")}

\* Documents of the calls made between two calls on the same document.
OtherDocs ==
    {[position |-> Raised, table |-> Raised, regex |-> Raised],
     [position |-> Returned(WithHeader([i \in 1..MaxItems |-> StubRow("position", i)])),
      table |-> Raised, regex |-> Raised]}

_extract_via_positions_call(d) == d.position

_extract_via_tables_call(d) == d.table

_extract_via_regex_call(d) == d.regex

\* parser.py:766 with the threshold the tests expect (a header and one row).
_is_reasonable_two(rows) == rows.isList /\ LenRows(rows) >= 2

\* parser.py:754-766
_is_reasonable(rows) == rows.isList /\ LenRows(rows) >= 5

\* The empty list, returned in place of [HEADER].
EmptyResult == PlainList(<<>>)

\* parser.py:151, return [HEADER]
HeaderOnly == WithHeader(<<>>)

NoResult == NotAList

NoPrev == [set |-> FALSE, doc |-> [position |-> Raised, table |-> Raised, regex |-> Raised],
           value |-> <<>>]

NoAppOut == [status |-> "none", error |-> "", input |-> NotAList,
             columns |-> <<>>, data |-> <<>>]

\* One entry of the history of a call.
Entry(tier, o) ==
    [tier |-> tier, kind |-> o.kind, val |-> o.val, on |-> doc,
     accepted |-> (o.kind = "return" /\ _is_reasonable(o.val))]

\* A tier's try block without the return: the accepted candidate is kept in `rows`
\* and the next tier runs all the same.
TryTierNoReturn(tier, o, next) ==
    /\ invoked' = Append(invoked, Entry(tier, o))
    /\ pc' = next
    /\ result' = IF o.kind = "return" /\ _is_reasonable(o.val) THEN o.val
                 ELSE IF next = "done" /\ result = NoResult THEN HeaderOnly ELSE result
    /\ UNCHANGED <<HEADER, doc, caller, prev, appOut, tierDoc, tierRun, qaIn, qaOut, auxVars>>

\* A tier's try block without the except clause: the exception leaves the call.
TryTierNoExcept(tier, o, next) ==
    /\ invoked' = Append(invoked, Entry(tier, o))
    /\ IF o.kind = "raise"
       THEN /\ pc' = "error"
            /\ result' = result
       ELSE IF _is_reasonable(o.val)
       THEN /\ pc' = "done"
            /\ result' = o.val
       ELSE /\ pc' = next
            /\ result' = IF next = "done" THEN HeaderOnly ELSE result
    /\ UNCHANGED <<HEADER, doc, caller, prev, appOut, tierDoc, tierRun, qaIn, qaOut, auxVars>>

\* A tier's try block: the candidate is returned when it is reasonable; an
\* exception, or a candidate that is not, leads to `next`.
TryTier(tier, o, next) ==
    /\ invoked' = Append(invoked, Entry(tier, o))
    /\ IF o.kind = "return" /\ _is_reasonable(o.val)
       THEN /\ pc' = "done"
            /\ result' = o.val
       ELSE /\ pc' = next
            /\ result' = IF next = "done" THEN HeaderOnly ELSE result
    /\ UNCHANGED <<HEADER, doc, caller, prev, appOut, tierDoc, tierRun, qaIn, qaOut, auxVars>>

\* A call of extract_table_rows(pdf_path) starts; c is the caller. After the
\* first call the documents are the first call's and those of OtherDocs.
Call(d, c) ==
    /\ pc = "idle"
    /\ prev.set => d \in {prev.doc} \cup OtherDocs
    /\ pc' = "position"
    /\ doc' = d
    /\ caller' = c
    /\ invoked' = <<>>
    /\ result' = NoResult
    /\ appOut' = NoAppOut
    /\ UNCHANGED <<HEADER, prev, tierDoc, tierRun, qaIn, qaOut, auxVars>>

\* parser.py:123-130
TryPosition ==
    /\ pc = "position"
    /\ TryTier("position", _extract_via_positions_call(doc), "table")

\* parser.py:132-139
TryTables ==
    /\ pc = "table"
    /\ TryTier("table", _extract_via_tables_call(doc), "regex")

\* parser.py:141-151; with no accepted candidate the call ends with [HEADER].
TryRegex ==
    /\ pc = "regex"
    /\ TryTier("regex", _extract_via_regex_call(doc), "done")

\* The value a caller receives.
Remember == IF prev.set THEN prev ELSE [set |-> TRUE, doc |-> doc, value |-> Elems(result)]

\* The call returns to a caller that called extract_table_rows itself.
ReturnToCaller ==
    /\ pc = "done"
    /\ caller = "direct"
    /\ pc' = "idle"
    /\ prev' = Remember
    /\ UNCHANGED <<HEADER, doc, caller, invoked, result, appOut, tierDoc, tierRun, qaIn, qaOut, auxVars>>

----------------------------------------------------------------------------
(* Helpers of the tiers *)

\* The index of the first word of s (a maximal run of \w) that is a run of lo
\* to hi digits, 0 when there is none: re.search(r"\b\d{lo,hi}\b", s).
FirstDigitWordAt(s, lo, hi) ==
    LET starts ==
            {i \in 1..Len(s) :
                /\ i = 1 \/ ~IsWordChar(s[i - 1])
                /\ \E n \in lo..hi :
                    /\ i + n - 1 <= Len(s)
                    /\ AllDigits(SubSeq(s, i, i + n - 1))
                    /\ i + n - 1 = Len(s) \/ ~IsWordChar(s[i + n])}
    IN  IF starts = {} THEN 0 ELSE CHOOSE i \in starts : \A j \in starts : i <= j

\* The length of the run of digits of s that starts at i.
RECURSIVE DigitRun(_, _)
DigitRun(s, i) ==
    IF i <= Len(s) /\ s[i] \in Digits THEN 1 + DigitRun(s, i + 1) ELSE 0

\* parser.py:425-438, for the patterns \b\d{lo,hi}\b of the tiers.
_first_match(s, lo, hi) ==
    LET t == IF s = NoneStr THEN <<>> ELSE s
        i == FirstDigitWordAt(t, lo, hi)
    IN  IF i = 0 THEN <<>> ELSE SubSeq(t, i, i + DigitRun(t, i) - 1)

\* row[idx] of Python, idx counted from 0 and from the end when negative;
\* 0 when the index is out of range.
PyIndex(row, idx) ==
    LET pos == IF idx >= 0 THEN idx + 1 ELSE Len(row) + idx + 1
    IN  IF pos \in 1..Len(row) THEN pos ELSE 0

\* parser.py:718-733
_safe_pick(row, idx) ==
    IF PyIndex(row, idx) = 0 THEN <<>> ELSE _clean_ws(row[PyIndex(row, idx)])

\* The index of the first blank of s, 0 when there is none.
FirstBlank(s) ==
    IF \E i \in 1..Len(s) : s[i] = " "
    THEN CHOOSE i \in 1..Len(s) : s[i] = " " /\ \A j \in 1..(i - 1) : s[j] # " "
    ELSE 0

\* s.split(" ", 1): the part before the first blank and the part after it.
SplitFirstBlank(s) ==
    IF FirstBlank(s) = 0 THEN <<s, <<>>>>
    ELSE <<SubSeq(s, 1, FirstBlank(s) - 1), SubSeq(s, FirstBlank(s) + 1, Len(s))>>

\* parser.py:736-751
_split_brand_desc(s) ==
    IF _clean_ws(s) = <<>> THEN <<<<>>, <<>>>> ELSE SplitFirstBlank(_clean_ws(s))

\* parser.py:710, f"{str(r[1]).strip()}|{str(r[3]).strip()}"
RowKey(r) == Strip(r[2]) \o <<"|">> \o Strip(r[4])

\* parser.py:707-715, the loop over the rows
RECURSIVE DedupeLoop(_, _, _)
DedupeLoop(rows, seen, out) ==
    IF rows = <<>> THEN out
    ELSE IF RowKey(Head(rows)) \in seen
         THEN DedupeLoop(Tail(rows), seen, out)
         ELSE DedupeLoop(Tail(rows), seen \cup {RowKey(Head(rows))}, Append(out, Head(rows)))

\* The loop with the test on `seen` left out.
_dedupe_keep_all(rows) == rows

\* parser.py:696-715
_dedupe(rows) == DedupeLoop(rows, {}, <<>>)

\* amount = round(qty * rate, 2), parser.py:282, 518, 579
DerivedAmount(qty, rate) == Num(Round2(qty.n * rate.n))

\* `if amount is None and (qty is not None) and (rate is not None)` with the
\* product left unrounded.
AmountOrDerivedRaw(qty, rate, amount) ==
    IF amount = NoneV /\ qty # NoneV /\ rate # NoneV
    THEN Num(Round2Identity(qty.n * rate.n)) ELSE amount

\* parser.py:281-282, 517-518, 578-579
AmountOrDerived(qty, rate, amount) ==
    IF amount = NoneV /\ qty # NoneV /\ rate # NoneV
    THEN DerivedAmount(qty, rate) ELSE amount

\* The row a tier appends: parser.py:291-301, 520-532, 582-594
ItemRow(qty, sku, dev, upc, hts, brand, desc, rate, amount) ==
    <<OrEmpty(qty), sku, dev, upc, hts, brand, desc, OrEmpty(rate), OrEmpty(amount)>>

----------------------------------------------------------------------------
(* The money pattern money_pat of parser.py:183 and 559 *)

\* The index after the longest run of groups ,ddd that starts at m.
RECURSIVE GroupsEnd(_, _)
GroupsEnd(s, m) ==
    IF m + 3 <= Len(s) /\ s[m] = "," /\ AllDigits(SubSeq(s, m + 1, m + 3))
    THEN GroupsEnd(s, m + 4) ELSE m

\* \$?\d{1,3}(?:,\d{3})*\.\d{2} at j: the index of the last character of the
\* match, 0 when there is none.
MoneyCoreEnd(s, j) ==
    LET k == IF j <= Len(s) /\ s[j] = "$" THEN j + 1 ELSE j
        n == DigitRun(s, k)
        m == GroupsEnd(s, k + n)
    IN  IF /\ n \in 1..3
           /\ m + 2 <= Len(s)
           /\ s[m] = "."
           /\ s[m + 1] \in Digits /\ s[m + 2] \in Digits
        THEN m + 2 ELSE 0

\* The index of the first character at or after i that is not white space.
RECURSIVE SkipSpace(_, _)
SkipSpace(s, i) == IF i <= Len(s) /\ IsSpace(s[i]) THEN SkipSpace(s, i + 1) ELSE i

\* money_pat at i: the index of the last character of the match, 0 for none.
MoneyEndAt(s, i) ==
    IF i + 2 <= Len(s) /\ SubSeq(s, i, i + 2) = <<"U", "S", "D">>
       /\ MoneyCoreEnd(s, SkipSpace(s, i + 3)) # 0
    THEN MoneyCoreEnd(s, SkipSpace(s, i + 3))
    ELSE MoneyCoreEnd(s, i)

\* _MONEY_RE.fullmatch(tok)
MoneyFullMatch(tok) == tok # <<>> /\ MoneyEndAt(tok, 1) = Len(tok)

\* re.findall(money_pat, s), searching from i on.
RECURSIVE FindAllMoney(_, _)
FindAllMoney(s, i) ==
    IF i > Len(s) THEN <<>>
    ELSE IF MoneyEndAt(s, i) # 0
         THEN <<SubSeq(s, i, MoneyEndAt(s, i))>> \o FindAllMoney(s, MoneyEndAt(s, i) + 1)
         ELSE FindAllMoney(s, i + 1)

\* re.search(money_pat, s).start(), counted from 1; 0 when there is no match.
SearchMoney(s) ==
    IF \E i \in 1..Len(s) : MoneyEndAt(s, i) # 0
    THEN CHOOSE i \in 1..Len(s) :
            MoneyEndAt(s, i) # 0 /\ \A j \in 1..(i - 1) : MoneyEndAt(s, j) = 0
    ELSE 0

\* _HTS_NUM_RE.fullmatch(tok), ^\d{6,12}$
HtsFullMatch(tok) == Len(tok) \in 6..12 /\ AllDigits(tok)

\* re.search(r"\b" + re.escape(u) + r"\b", s).start() for a run of digits u,
\* counted from 1; 0 when there is no match.
SearchWord(s, u) ==
    LET hits ==
            {i \in 1..(Len(s) - Len(u) + 1) :
                /\ SubSeq(s, i, i + Len(u) - 1) = u
                /\ i = 1 \/ ~IsWordChar(s[i - 1])
                /\ i + Len(u) - 1 = Len(s) \/ ~IsWordChar(s[i + Len(u)])}
    IN  IF u = <<>> \/ hits = {} THEN 0 ELSE CHOOSE i \in hits : \A j \in hits : i <= j

\* re.sub(r"\s{2,}", " ", s)
RECURSIVE CollapseWs2(_)
CollapseWs2(s) ==
    IF s = <<>> THEN <<>>
    ELSE IF Len(s) >= 2 /\ IsSpace(s[1]) /\ IsSpace(s[2])
         THEN <<" ">> \o CollapseWs2(LStrip(s))
         ELSE <<Head(s)>> \o CollapseWs2(Tail(s))

----------------------------------------------------------------------------
(* The position tier: _extract_via_positions *)
(* A word is [x0, x1, top, bottom, text]; vertical centres and horizontal  *)
(* midpoints are kept doubled (top + bottom, x0 + x1), and so are header_y *)
(* (y2) and the column windows (left, right) of col_x, a sequence of       *)
(* [name, left, right] in the order of the dict.                           *)

\* parser.py:197, line_tol = 5.5, doubled
LineTol2 == 11

\* `None` of _which_col
NoCol == ""

\* list.sort(key=...): the stable sort of Python; keys[i] is the key of seq[i].
StableSort(seq, keys) ==
    LET n == Len(seq)
        Rank(i) ==
            1 + Cardinality({j \in 1..n :
                    \/ keys[j] < keys[i]
                    \/ keys[j] = keys[i] /\ j < i})
    IN  [p \in 1..n |-> seq[CHOOSE i \in 1..n : Rank(i) = p]]

\* parser.py:407-422
_which_col(x2, col_x) ==
    LET hits == {i \in 1..Len(col_x) : col_x[i].left <= x2 /\ x2 <= col_x[i].right}
    IN  IF hits = {} THEN NoCol
        ELSE col_x[CHOOSE i \in hits : \A j \in hits : i <= j].name

\* The mutant of PlaceWord in which the word joins the last band within the
\* tolerance.
PlaceWordInLastBand(bands, w) ==
    LET cy2 == w.top + w.bottom
        near == {i \in 1..Len(bands) : Abs(bands[i].y2 - cy2) <= LineTol2}
    IN  IF near = {} THEN Append(bands, [y2 |-> cy2, arr |-> <<w>>])
        ELSE LET i == CHOOSE k \in near : \A j \in near : k >= j
             IN  [bands EXCEPT ![i].arr = Append(@, w)]

\* parser.py:204-211: the word joins the first band within the tolerance, or
\* starts a new band.
PlaceWord(bands, w) ==
    LET cy2 == w.top + w.bottom
        near == {i \in 1..Len(bands) : Abs(bands[i].y2 - cy2) <= LineTol2}
    IN  IF near = {} THEN Append(bands, [y2 |-> cy2, arr |-> <<w>>])
        ELSE LET i == CHOOSE k \in near : \A j \in near : k <= j
             IN  [bands EXCEPT ![i].arr = Append(@, w)]

\* parser.py:198-211: the bands of the words below the header, in the order
\* of their creation.
RECURSIVE BandLoop(_, _, _)
BandLoop(words, header_y2, bands) ==
    IF words = <<>> THEN bands
    ELSE IF Head(words).top + Head(words).bottom <= header_y2
         THEN BandLoop(Tail(words), header_y2, bands)
         ELSE BandLoop(Tail(words), header_y2, PlaceWord(bands, Head(words)))

\* parser.py:198-212
LineBands(words, header_y2) ==
    LET bands == BandLoop(words, header_y2, <<>>)
    IN  StableSort(bands, [i \in 1..Len(bands) |-> bands[i].y2])

\* What the loop over the bands carries: out_rows, the index in out_rows of
\* `pending` (0 for None), and whether an exception was raised; facts is a
\* history, for each row of out_rows the qty and the rate it was built from
\* and the amount obtained from the document (before line 281).
NoRows == [rows |-> <<>>, facts |-> <<>>, pending |-> 0, raised |-> FALSE]

\* parser.py:223-226: the column the token is filed under.
Reclassify(col, tok) ==
    IF col = "hts" /\ ~HtsFullMatch(tok) THEN "branddesc"
    ELSE IF col \in {"rate", "amount"} /\ ~MoneyFullMatch(tok) THEN "branddesc"
    ELSE col

\* parser.py:217-229: `cells` when the band is done. Lines 223-229 follow the
\* loop over the words of the band, so that one token, the last word's, is
\* filed, under the column col that is a key of col_x.
BandCells(col_x, col, tok) ==
    [k \in {col_x[i].name : i \in 1..Len(col_x)} |-> IF k = col THEN <<tok>> ELSE <<>>]

\* cells.get(k, [])
CellsGet(cells, k) == IF k \in DOMAIN cells THEN cells[k] ELSE <<>>

\* parser.py:231-243: the fields of the band, read from its cells.
BandFields(cells) ==
    LET hts_s == _first_match(Join(CellsGet(cells, "hts"), <<>>), 8, 12)
        branddesc == _clean_ws(Join(CellsGet(cells, "branddesc"), <<" ">>))
        spill == SelectSeq(CellsGet(cells, "hts"), LAMBDA t : ~HtsFullMatch(t))
    IN  [qty_s |-> Join(CellsGet(cells, "qty"), <<" ">>),
         sku_s |-> Join(CellsGet(cells, "sku"), <<>>),
         dev_s |-> Join(CellsGet(cells, "dev"), <<>>),
         upc_s |-> _first_match(Join(CellsGet(cells, "upc"), <<>>), 8, 14),
         hts_s |-> hts_s,
         branddesc |->
            IF hts_s = <<>> /\ spill # <<>>
            THEN _clean_ws(Strip(branddesc \o <<" ">> \o Join(spill, <<" ">>)))
            ELSE branddesc,
         rate_s |-> Join(CellsGet(cells, "rate"), <<>>),
         amount_s |-> Join(CellsGet(cells, "amount"), <<>>)]

\* parser.py:254-261: rate and amount (those of lines 252-253) after the
\* recovery from the prices of the raw line.
RecoverPrices(rate, amount, prices) ==
    IF (rate = NoneV \/ amount = NoneV) /\ Len(prices) >= 2
    THEN [rate |-> IF rate = NoneV THEN _to_float(prices[Len(prices) - 1]) ELSE rate,
          amount |-> IF amount = NoneV THEN _to_float(prices[Len(prices)]) ELSE amount]
    ELSE IF (rate = NoneV \/ amount = NoneV) /\ Len(prices) = 1 /\ amount = NoneV
    THEN [rate |-> rate, amount |-> _to_float(prices[1])]
    ELSE [rate |-> rate, amount |-> amount]

\* parser.py:264-271: branddesc after the recovery from the raw line; u is the
\* index of the UPC found as a word of the raw line and mp that of its first
\* price (0 for no match).
BrandDescBetween(branddesc, upc_s, raw_line, prices, u, mp) ==
    IF /\ branddesc = <<>> /\ upc_s # <<>> /\ prices # <<>>
       /\ u # 0 /\ mp # 0 /\ mp - 1 > u + Len(upc_s) - 1
       /\ Strip(CollapseWs2(SubSeq(raw_line, u + Len(upc_s), mp - 1))) # <<>>
    THEN Strip(CollapseWs2(SubSeq(raw_line, u + Len(upc_s), mp - 1)))
    ELSE branddesc

\* parser.py:273-303: the band continues the pending row, is skipped, or
\* gives a row.
EmitRow(acc, f, qty, rate, amount, branddesc) ==
    LET has_key == f.sku_s # <<>> /\ f.upc_s # <<>>
        bd == IF branddesc # <<>> THEN SplitFirstBlank(branddesc) ELSE <<<<>>, branddesc>>
    IN  IF ~has_key /\ acc.pending # 0 /\ branddesc # <<>>
        THEN [acc EXCEPT !.rows[acc.pending][7] = _clean_ws(@ \o <<" ">> \o branddesc)]
        ELSE IF ~has_key THEN acc
        ELSE [acc EXCEPT
                !.rows = Append(@, ItemRow(qty, f.sku_s, f.dev_s, f.upc_s, f.hts_s,
                                           bd[1], bd[2], rate,
                                           AmountOrDerived(qty, rate, amount))),
                !.facts = Append(@, [qty |-> qty, rate |-> rate, obtained |-> amount]),
                !.pending = Len(acc.rows) + 1]

\* parser.py:248-303: the band with its fields f read, its raw line and the
\* prices found in it.
FiledBand(acc, f, raw_line, prices) ==
    LET p == RecoverPrices(IF f.rate_s # <<>> THEN _to_float(f.rate_s) ELSE NoneV,
                           IF f.amount_s # <<>> THEN _to_float(f.amount_s) ELSE NoneV,
                           prices)
    IN  EmitRow(acc, f, _to_int(f.qty_s), p.rate, p.amount,
                BrandDescBetween(f.branddesc, f.upc_s, raw_line, prices,
                                 SearchWord(raw_line, f.upc_s), SearchMoney(raw_line)))

\* parser.py:223-303: the band whose last word has the text tok and falls in
\* the column col; cells[col] is a KeyError when col is no column of col_x.
FileBand(acc, col_x, raw_line, col, tok) ==
    IF col # NoCol /\ col \notin {col_x[i].name : i \in 1..Len(col_x)}
    THEN [acc EXCEPT !.raised = TRUE]
    ELSE FiledBand(acc, BandFields(BandCells(col_x, col, tok)), raw_line,
                   FindAllMoney(raw_line, 1))

\* parser.py:216-303: one band.
ProcessBand(band, col_x, acc) ==
    LET arr == StableSort(band.arr, [i \in 1..Len(band.arr) |-> band.arr[i].x0])
        last == arr[Len(arr)]
    IN  IF acc.raised THEN acc
        ELSE FileBand(acc, col_x, Join([i \in 1..Len(arr) |-> arr[i].text], <<" ">>),
                      Reclassify(_which_col(last.x0 + last.x1, col_x), last.text),
                      last.text)

\* parser.py:215-303: the loop over the bands of a page.
RECURSIVE BandsLoop(_, _, _)
BandsLoop(bands, col_x, acc) ==
    IF bands = <<>> THEN acc
    ELSE BandsLoop(Tail(bands), col_x, ProcessBand(Head(bands), col_x, acc))

\* parser.py:188-303: one page; a page without words, or without a header
\* band or column windows, is skipped.
ProcessPage(page, acc) ==
    IF page.words = <<>> \/ ~page.header.found \/ page.header.col_x = <<>> THEN acc
    ELSE BandsLoop(LineBands(page.words, page.header.y2), page.header.col_x,
                   [acc EXCEPT !.pending = 0])

\* parser.py:187-303: the loop over the pages.
RECURSIVE PagesLoop(_, _)
PagesLoop(pages, acc) ==
    IF pages = <<>> THEN acc ELSE PagesLoop(Tail(pages), ProcessPage(Head(pages), acc))

\* parser.py:159-305
_extract_via_positions(d) ==
    IF d.openRaises \/ PagesLoop(d.pages, NoRows).raised THEN Raised
    ELSE Returned(WithHeader(_dedupe(PagesLoop(d.pages, NoRows).rows)))

----------------------------------------------------------------------------
(* The table tier: _extract_via_tables *)

\* parser.py:483-487: the rows of a detected table with their cells cleaned,
\* without the rows whose cells are all blank.
CleanTableRows(t) ==
    SelectSeq([i \in 1..Len(t) |-> [j \in 1..Len(t[i]) |-> _clean_ws(t[i][j])]],
              LAMBDA row : \E j \in 1..Len(row) : row[j] # <<>>)

\* parser.py:494-495
IsTableHeader(r) ==
    LET label == Join([j \in 1..Len(r) |-> Lower(r[j])], <<" ">>)
    IN  /\ Contains(label, <<"q", "t", "y">>)
        /\ \/ Contains(label, <<"s", "k", "u">>)
           \/ Contains(label, <<"i", "t", "e", "m", " ", "s", "k", "u">>)

\* parser.py:492-499: the index of the header row among the first 5 rows, 0
\* when none of them is one.
HeaderIdx(table_rows) ==
    LET cands == {i \in 1..Len(table_rows) : i <= 5 /\ IsTableHeader(table_rows[i])}
    IN  IF cands = {} THEN 0 ELSE CHOOSE i \in cands : \A j \in cands : i <= j

\* parser.py:502-532: the item row of one row of a table.
TableItemRow(r) ==
    LET qty == _to_int(_safe_pick(r, 0))
        sku == _safe_pick(r, 1)
        dev == _safe_pick(r, 2)
        upc == _first_match(_safe_pick(r, 3) \o <<" ">> \o _safe_pick(r, 4), 8, 14)
        hts == _first_match(_safe_pick(r, 4) \o <<" ">> \o _safe_pick(r, 5), 8, 12)
        branddesc == _clean_ws(Strip(_safe_pick(r, 5) \o <<" ">> \o _safe_pick(r, 6)))
        bd == _split_brand_desc(branddesc)
        rate == _to_float(_safe_pick(r, -2))
        amount == AmountOrDerived(qty, rate, _to_float(_safe_pick(r, -1)))
    IN  ItemRow(qty, sku, dev, upc, hts, bd[1], bd[2], rate, amount)

\* parser.py:482-501: the rows of one detected table that follow its header
\* row, none when the table has no header row.
TableDataRows(t) ==
    LET table_rows == CleanTableRows(t)
        h == HeaderIdx(table_rows)
    IN  IF table_rows = <<>> \/ h = 0 THEN <<>>
        ELSE SubSeq(table_rows, h + 1, Len(table_rows))

\* parser.py:482-532: the item rows of one detected table.
TableItems(t) ==
    [i \in 1..Len(TableDataRows(t)) |-> TableItemRow(TableDataRows(t)[i])]

\* The item rows of a sequence of tables, in order.
RECURSIVE TablesItems(_)
TablesItems(ts) ==
    IF ts = <<>> THEN <<>> ELSE TableItems(Head(ts)) \o TablesItems(Tail(ts))

\* parser.py:477-481: the tables of a page, none when extract_tables raises.
PageTables(page) == IF page.tablesRaise THEN <<>> ELSE page.tables

\* parser.py:475-532: the rows collected over the pages, before _dedupe.
RECURSIVE TableTierRows(_)
TableTierRows(pages) ==
    IF pages = <<>> THEN <<>>
    ELSE TablesItems(PageTables(Head(pages))) \o TableTierRows(Tail(pages))

\* History: the qty and the rate of the item row of r, and the amount obtained
\* from the document (parser.py:502, 515, 516).
TableRowFacts(r) ==
    [qty |-> _to_int(_safe_pick(r, 0)),
     rate |-> _to_float(_safe_pick(r, -2)),
     obtained |-> _to_float(_safe_pick(r, -1))]

\* History: the facts of the rows of TableTierRows(pages), in the same order.
RECURSIVE TablesFacts(_)
TablesFacts(ts) ==
    IF ts = <<>> THEN <<>>
    ELSE [i \in 1..Len(TableDataRows(Head(ts))) |-> TableRowFacts(TableDataRows(Head(ts))[i])]
         \o TablesFacts(Tail(ts))

RECURSIVE TableTierFacts(_)
TableTierFacts(pages) ==
    IF pages = <<>> THEN <<>>
    ELSE TablesFacts(PageTables(Head(pages))) \o TableTierFacts(Tail(pages))

\* parser.py:446-534; pdfplumber.open raising is the tier raising.
_extract_via_tables(d) ==
    IF d.openRaises THEN Raised
    ELSE Returned(WithHeader(_dedupe(TableTierRows(d.pages))))

----------------------------------------------------------------------------
(* The regex tier: _extract_via_regex *)
(* The document gives the matches of `pat` in its text, in the order of    *)
(* pat.finditer: each is the groupdict [qty, sku, dev, upc, branddesc,     *)
(* rate, amount], dev being None when the optional group took no part.     *)

\* `d.get(k) or ""`
OrEmptyStr(s) == IF s = NoneStr THEN <<>> ELSE s

\* parser.py:574-594: the item row of one match.
RegexRow(m) ==
    LET qty == _to_int(m.qty)
        rate == _to_float(m.rate)
        amount == AmountOrDerived(qty, rate, _to_float(m.amount))
        bd == _split_brand_desc(OrEmptyStr(m.branddesc))
    IN  ItemRow(qty, _clean_ws(OrEmptyStr(m.sku)), _clean_ws(OrEmptyStr(m.dev)),
                _clean_ws(OrEmptyStr(m.upc)), <<>>, bd[1], bd[2], rate, amount)

\* parser.py:572-594: the rows of the matches, before _dedupe.
RegexTierRows(matches) == [i \in 1..Len(matches) |-> RegexRow(matches[i])]

\* History: the qty and the rate of the row of a match, and the amount
\* obtained from the document (parser.py:575-577).
RegexRowFacts(m) ==
    [qty |-> _to_int(m.qty), rate |-> _to_float(m.rate), obtained |-> _to_float(m.amount)]

\* parser.py:542-596; _extract_all_text swallows what pdfplumber and PyPDF2
\* raise (parser.py:625, 633), so that the tier returns on every document.
_extract_via_regex(d) == Returned(WithHeader(_dedupe(RegexTierRows(d.matches))))

----------------------------------------------------------------------------
(* The caller: extract_data_from_pdf (app.py) *)

\* Number of cells of the widest of the rows.
MaxWidth(rs) ==
    IF rs = <<>> THEN 0
    ELSE CHOOSE w \in {Len(rs[i]) : i \in 1..Len(rs)} :
            \A i \in 1..Len(rs) : Len(rs[i]) <= w

\* `not rows or len(rows) <= 1` with `< 1` in place of `<= 1`.
NoDataRowsStrict(rows) == ~rows.isList \/ LenRows(rows) < 1

\* app.py:47, `not rows or len(rows) <= 1` (rows a list or None).
NoDataRows(rows) == ~rows.isList \/ LenRows(rows) = 0 \/ LenRows(rows) <= 1

\* app.py:47-56: the ValueError, or the DataFrame of rows[1:] under the
\* columns rows[0]; pandas refuses data whose width is not that of the columns.
ExtractData(rows) ==
    IF NoDataRows(rows)
    THEN [status |-> "raised", error |-> "No data rows found in PDF", input |-> rows,
          columns |-> <<>>, data |-> <<>>]
    ELSE LET e == Elems(rows)
             header == e[1]
             data_rows == Tail(e)
         IN  IF data_rows # <<>> /\ MaxWidth(data_rows) # Len(header)
             THEN [status |-> "raised", error |-> "columns passed do not match data",
                   input |-> rows, columns |-> <<>>, data |-> <<>>]
             ELSE [status |-> "returned", error |-> "", input |-> rows,
                   columns |-> header, data |-> data_rows]

\* app.py:34-60 once extract_table_rows has returned.
ExtractDataFromPdfReturn ==
    /\ pc = "done"
    /\ caller = "app"
    /\ appOut' = ExtractData(result)
    /\ pc' = "idle"
    /\ prev' = Remember
    /\ UNCHANGED <<HEADER, doc, caller, invoked, result, tierDoc, tierRun, qaIn, qaOut, auxVars>>

\* The lists the tests let a patched extract_table_rows return
\* (tests/core/test_app_errors.py:179-225) and a list of a header and one row.
StubResults ==
    {PlainList(<<>>),
     PlainList(<< <<"Col1", "Col2">> >>),
     PlainList(<< <<"Col1", "Col2", "Col3">>, <<"A", "B", "C">> >>),
     PlainList(<< <<"Col1", "Col2", "Col3">>, <<"A", "B", "C">>, <<"D", "E", "F">> >>)}

\* extract_data_from_pdf with extract_table_rows patched to return r.
ExtractDataPatched(r) ==
    /\ pc = "idle"
    /\ appOut # ExtractData(r)
    /\ appOut' = ExtractData(r)
    /\ caller' = "patched"
    /\ UNCHANGED <<HEADER, doc, pc, invoked, result, prev, tierDoc, tierRun, qaIn, qaOut, auxVars>>

----------------------------------------------------------------------------
(* A caller that changes a returned list in place *)

HeaderChanges == Cardinality({k \in 1..Len(HEADER) : HEADER[k] # CanonicalHeader[k]})

\* rows[0][k-1] = v on the list the last call returned: rows[0] is the HEADER
\* object, so the assignment is an assignment to parser.HEADER.
CallerSetsHeaderCell(k, v) ==
    /\ pc = "idle"
    /\ prev.set
    /\ result.isList /\ result.hasHeader
    /\ HeaderChanges < MaxMutations
    /\ HEADER[k] # v
    /\ HEADER' = [HEADER EXCEPT ![k] = v]
    /\ UNCHANGED <<doc, pc, caller, invoked, result, prev, appOut, tierDoc, tierRun, qaIn, qaOut, auxVars>>

----------------------------------------------------------------------------
(* The documents the tiers are run on by themselves *)

\* Bounds
MaxTableRows == 3

MaxMatches == 3

\* The header row of a detected table, as pdfplumber's extract_tables gives it.
TableHeaderRow ==
    <<<<"Q", "t", "y">>, <<"I", "t", "e", "m", " ", "S", "K", "U">>, <<"D", "e", "v">>, <<"U", "P", "C">>, <<"H", "T", "S">>, <<"B", "r", "a", "n", "d">>, <<"D", "e", "s", "c", "r", "i", "p", "t", "i", "o", "n">>, <<"R", "a", "t", "e">>, <<"A", "m", "o", "u", "n", "t">>>>

\* Rows of a detected table: a rate of three decimals and no amount; the same
\* SKU and UPC again, padded, with an amount; a rate that is a tie and no
\* amount; a quantity that is no number; no rate; a row whose key is that of
\* the third with a printed amount.
TableRowPool ==
    {<<<<"2">>, <<"S", "K", "U", "-", "A">>, <<"D", "1">>, <<"1", "2", "3", "4", "5", "6", "7", "8">>, <<"8", "7", "6", "5", "4", "3", "2", "1">>, <<"A", "c", "m", "e">>, <<"W", "i", "d", "g", "e", "t">>, <<"1", ".", "2", "3", "4">>, <<>>>>,
     <<<<"2">>, <<" ", "S", "K", "U", "-", "A", " ">>, <<>>, <<"1", "2", "3", "4", "5", "6", "7", "8">>, <<>>, <<"A", "c", "m", "e">>, <<"O", "t", "h", "e", "r">>, <<"3", ".", "0", "0">>, <<"6", ".", "0", "0">>>>,
     <<<<"1">>, <<"S", "K", "U", "-", "B">>, <<>>, <<"8", "7", "6", "5", "4", "3", "2", "1">>, <<>>, <<"B", "e", "t", "a">>, <<"T", "h", "i", "n", "g">>, <<".", "1", "2", "5">>, <<>>>>,
     <<<<"x">>, <<"S", "K", "U", "-", "C">>, <<>>, <<"1", "1", "1", "1", "2", "2", "2", "2">>, <<>>, <<"G", "a", "m", "m", "a">>, <<>>, <<"5", ".", "0", "0">>, <<>>>>,
     <<<<"3">>, <<"S", "K", "U", "-", "D">>, <<>>, <<"3", "3", "3", "3", "4", "4", "4", "4">>, <<>>, <<"D", "e", "l", "t", "a">>, <<"I", "t", "e", "m">>, <<>>, <<>>>>,
     <<<<"4">>, <<"S", "K", "U", "-", "B">>, <<>>, <<"8", "7", "6", "5", "4", "3", "2", "1">>, <<>>, <<"E", "p", "s">>, <<"I", "t", "e", "m">>, <<"$", "2", ".", "5", "0">>, <<"U", "S", "D", " ", "1", "0", ".", "0", "0">>>>}


\* The words of a page under a header line Qty, SKU, UPC, Rate, Amount: an item
\* line, a word of the line below it, and a word of the header line.
WordPool ==
    <<[x0 |-> 40, x1 |-> 60, top |-> 60, bottom |-> 70, text |-> <<"2">>],
      [x0 |-> 120, x1 |-> 180, top |-> 60, bottom |-> 70, text |-> <<"S", "K", "U", "-", "A">>],
      [x0 |-> 220, x1 |-> 280, top |-> 60, bottom |-> 70, text |-> <<"1", "2", "3", "4", "5", "6", "7", "8">>],
      [x0 |-> 340, x1 |-> 360, top |-> 60, bottom |-> 70, text |-> <<"A", "c", "m", "e">>],
      [x0 |-> 430, x1 |-> 470, top |-> 60, bottom |-> 70, text |-> <<"1", ".", "5", "0">>],
      [x0 |-> 530, x1 |-> 570, top |-> 60, bottom |-> 70, text |-> <<"3", ".", "0", "0">>],
      [x0 |-> 430, x1 |-> 470, top |-> 80, bottom |-> 90, text |-> <<"W", "i", "d", "g", "e", "t">>],
      [x0 |-> 40, x1 |-> 60, top |-> 45, bottom |-> 55, text |-> <<"Q", "t", "y">>]>>


\* Matches of `pat`: two with the same SKU and UPC, and two with the same SKU
\* and different UPCs.
MatchPool ==
    {[qty |-> <<"2">>, sku |-> <<"1", "A", "B", "1", "2", "3", "4", "-", "1", "2", "-", "C", "1", "2", "3", "4", "-", "A", "B", "C", "D", "E">>, dev |-> NoneStr, upc |-> <<"1", "2", "3", "4", "5", "6", "7", "8">>,
      branddesc |-> <<"A", "c", "m", "e", " ", "W", "i", "d", "g", "e", "t">>, rate |-> <<"1", ".", "5", "0">>, amount |-> <<"3", ".", "0", "0">>],
     [qty |-> <<"3">>, sku |-> <<"1", "A", "B", "1", "2", "3", "4", "-", "1", "2", "-", "C", "1", "2", "3", "4", "-", "A", "B", "C", "D", "E">>, dev |-> <<"D", "1">>, upc |-> <<"1", "2", "3", "4", "5", "6", "7", "8">>,
      branddesc |-> <<"A", "c", "m", "e", " ", "O", "t", "h", "e", "r">>, rate |-> <<"$", "1", ".", "5", "0">>, amount |-> <<"U", "S", "D", " ", "4", ".", "5", "0">>],
     [qty |-> <<"1", "0">>, sku |-> <<"2", "C", "D", "5", "6", "7", "8", "-", "3", "4", "-", "E", "5", "6", "7", "8", "-", "F", "G", "H", "I", "J">>, dev |-> <<"D", "2">>, upc |-> <<"8", "7", "6", "5", "4", "3", "2", "1">>,
      branddesc |-> <<"S", "o", "l", "o">>, rate |-> <<"1", ",", "0", "0", "0", ".", "0", "0">>, amount |-> <<"1", "0", ",", "0", "0", "0", ".", "0", "0">>],
     [qty |-> <<"1">>, sku |-> <<"2", "C", "D", "5", "6", "7", "8", "-", "3", "4", "-", "E", "5", "6", "7", "8", "-", "F", "G", "H", "I", "J">>, dev |-> NoneStr, upc |-> <<"8", "7", "6", "5", "4", "3", "2", "1", "0">>,
      branddesc |-> <<"B", "e", "t", "a", " ", "T", "h", "i", "n", "g">>, rate |-> <<"2", ".", "0", "0">>, amount |-> <<"2", ".", "0", "0">>]}

\* The column windows _find_header_and_columns gives for that header line,
\* whose words have their midpoints at 50, 150, 250, 450 and 550
\* (parser.py:381-402): all doubled, in the order of the dict.
HeaderCols ==
    <<[name |-> "qty", left |-> -40, right |-> 200],
      [name |-> "sku", left |-> 200, right |-> 400],
      [name |-> "upc", left |-> 400, right |-> 700],
      [name |-> "rate", left |-> 700, right |-> 1000],
      [name |-> "amount", left |-> 1000, right |-> 1240],
      [name |-> "branddesc", left |-> 700, right |-> 700]>>

\* What _find_header_and_columns returns for a page (parser.py:192): the
\* header line at y = 50 with its windows, or (None, {}).
HeaderFound == [found |-> TRUE, y2 |-> 100, col_x |-> HeaderCols]

NoHeader == [found |-> FALSE, y2 |-> 0, col_x |-> <<>>]

\* A page: its words, its header line, and its detected tables.
Page(words, header, tablesRaise, tables) ==
    [words |-> words, header |-> header, tablesRaise |-> tablesRaise, tables |-> tables]

EmptyPage == Page(<<>>, NoHeader, FALSE, <<>>)

\* A document: whether pdfplumber.open raises on it, its pages, and the
\* matches of the regex tier's pattern in its text.
Document(openRaises, pages, matches) ==
    [openRaises |-> openRaises, pages |-> pages, matches |-> matches]

\* The sequences of at most n elements of the set S.
SeqsUpTo(S, n) == UNION {[1..k -> S] : k \in 0..n}

\* The words of WordPool whose indices are in sel, in the order of the pool.
PickWords(sel) == SelectSeq(WordPool, LAMBDA w : \E i \in sel : WordPool[i] = w)

\* Documents with detected tables: the rows in one table; in two tables of one
\* page, each with its header row; on two pages; on two pages, extract_tables
\* raising on the first.
TableDocs ==
    {Document(FALSE, <<Page(<<>>, NoHeader, FALSE, <<<<TableHeaderRow>> \o rs>>)>>, <<>>) :
        rs \in SeqsUpTo(TableRowPool, MaxTableRows)}
    \cup
    {Document(FALSE,
              <<Page(<<>>, NoHeader, FALSE,
                     <<<<TableHeaderRow, Head(rs)>>, <<TableHeaderRow>> \o Tail(rs)>>)>>,
              <<>>) :
        rs \in SeqsUpTo(TableRowPool, MaxTableRows) \ {<<>>}}
    \cup
    {Document(FALSE,
              <<Page(<<>>, NoHeader, raises, <<<<TableHeaderRow, Head(rs)>>>>),
                Page(<<>>, NoHeader, FALSE, <<<<TableHeaderRow>> \o Tail(rs)>>)>>,
              <<>>) :
        rs \in SeqsUpTo(TableRowPool, MaxTableRows) \ {<<>>}, raises \in BOOLEAN}

\* Documents with words: a page with some of the words of the pool, with or
\* without a header line.
WordDocs ==
    {Document(FALSE, <<Page(PickWords(sel), h, FALSE, <<>>)>>, <<>>) :
        sel \in SUBSET (1..Len(WordPool)), h \in {HeaderFound, NoHeader}}

\* Documents whose text has matches of the pattern.
MatchDocs ==
    {Document(FALSE, <<EmptyPage>>, ms) : ms \in SeqsUpTo(MatchPool, MaxMatches)}

\* Documents pdfplumber cannot open; PyPDF2 may still give their text.
BrokenDocs ==
    {Document(TRUE, <<>>, ms) : ms \in SeqsUpTo(MatchPool, 1)}

TierDocs == TableDocs \cup WordDocs \cup MatchDocs \cup BrokenDocs

NoDocument == Document(FALSE, <<>>, <<>>)

\* No tier has run.
NoRun == [tier |-> "none", raw |-> <<>>, facts |-> <<>>, out |-> Raised]

\* _extract_via_positions(pdf_path) by itself.
RunPositionTier ==
    /\ tierRun.tier = "none"
    /\ tierRun' =
        [tier |-> "position",
         raw |-> IF tierDoc.openRaises THEN <<>> ELSE PagesLoop(tierDoc.pages, NoRows).rows,
         facts |-> IF tierDoc.openRaises THEN <<>> ELSE PagesLoop(tierDoc.pages, NoRows).facts,
         out |-> _extract_via_positions(tierDoc)]
    /\ UNCHANGED <<orchVars, tierDoc, qaVars, auxVars>>

\* _extract_via_tables(pdf_path) by itself.
RunTableTier ==
    /\ tierRun.tier = "none"
    /\ tierRun' =
        [tier |-> "table",
         raw |-> IF tierDoc.openRaises THEN <<>> ELSE TableTierRows(tierDoc.pages),
         facts |-> IF tierDoc.openRaises THEN <<>> ELSE TableTierFacts(tierDoc.pages),
         out |-> _extract_via_tables(tierDoc)]
    /\ UNCHANGED <<orchVars, tierDoc, qaVars, auxVars>>

\* _extract_via_regex(pdf_path) by itself.
RunRegexTier ==
    /\ tierRun.tier = "none"
    /\ tierRun' =
        [tier |-> "regex",
         raw |-> RegexTierRows(tierDoc.matches),
         facts |-> [i \in 1..Len(tierDoc.matches) |-> RegexRowFacts(tierDoc.matches[i])],
         out |-> _extract_via_regex(tierDoc)]
    /\ UNCHANGED <<orchVars, tierDoc, qaVars, auxVars>>

----------------------------------------------------------------------------
(* The QA validator: run_qa_checks (core/validator.py) *)
(* A table (DataFrame) is [columns, rows]: the set of its column names and *)
(* its rows, each [Qty, UPC, Rate, Amount] (a cell of a column the table   *)
(* lacks is None; the checks read no other column). A Qty that is a number *)
(* is in units, a Rate or an Amount in thousandths.                        *)

\* validator.py:4
REQUIRED_COLS ==
    <<"Qty", "Item_SKU", "Dev_Code", "UPC", "HTS_Code", "Brand", "Description", "Rate", "Amount">>

\* validator.py:64
Needed == {"Qty", "UPC", "Rate", "Amount"}

\* Bound
MaxQaRows == 2

\* df.empty: no rows or no columns.
Empty(df) == df.rows = <<>> \/ df.columns = {}

\* pd.to_numeric(x, errors="coerce") of a Qty cell, in thousandths; NoneV is NaN.
QtyNumeric(v) ==
    IF v.t = "num" THEN Num(v.n * 1000)
    ELSE IF v.t = "str" THEN FloatLiteral(v.s)
    ELSE NoneV

\* validator.py:81-82 for one cell: astype(str), the characters other than
\* digits, "." and "-" removed, then to_numeric; in thousandths, NoneV is NaN.
PriceNumeric(v) ==
    IF v.t = "num" THEN v
    ELSE IF v.t = "str"
         THEN FloatLiteral(SelectSeq(v.s, LAMBDA c : c \in Digits \/ c \in {".", "-"}))
    ELSE NoneV

\* _upc_ok with the weight 3 on the digits d1, d3, ... instead of d0, d2, ...
_upc_ok_weights_swapped(upc) ==
    /\ Len(upc) = 12
    /\ AllDigits(upc)
    /\ LET ds == [i \in 1..12 |-> DigitVal(upc[i])]
           check == (10 - ((ds[1] + ds[3] + ds[5] + ds[7] + ds[9] + ds[11]
                            + (ds[2] + ds[4] + ds[6] + ds[8] + ds[10]) * 3) % 10)) % 10
       IN  check = ds[12]

\* validator.py:27-33, for the string str(upc)
_upc_ok(upc) ==
    /\ Len(upc) = 12
    /\ AllDigits(upc)
    /\ LET ds == [i \in 1..12 |-> DigitVal(upc[i])]
           check == (10 - (((ds[1] + ds[3] + ds[5] + ds[7] + ds[9] + ds[11]) * 3
                            + ds[2] + ds[4] + ds[6] + ds[8] + ds[10]) % 10)) % 10
       IN  check = ds[12]

\* validator.py:74 for one cell: astype(str) with the non-digits removed.
UpcDigits(v) == IF v.t = "str" THEN SelectSeq(v.s, LAMBDA c : c \in Digits) ELSE <<>>

\* The result of _to_money: a value, or the AttributeError of line 25.
MoneyRaised == [t |-> "raise", n |-> 0, s |-> <<>>]

\* validator.py:6-25, for s that is not None
_to_money(s) ==
    LET txt0 == Strip(s)
        txt1 == IF StartsWith(txt0, <<"U", "S", "D">>)
                THEN Strip(SubSeq(txt0, 4, Len(txt0))) ELSE txt0
        neg == txt1 # <<>> /\ Head(txt1) = "(" /\ txt1[Len(txt1)] = ")"
        txt2 == IF neg THEN Strip(SubSeq(txt1, 2, Len(txt1) - 1)) ELSE txt1
        val == FloatLiteral(Remove(Remove(txt2, "$"), ","))
    IN  IF val = NoneV THEN MoneyRaised
        ELSE IF neg THEN Num(-val.n) ELSE val

\* One entry of the summary: the check it comes from, the number of rows or
\* the names it reports, and the two sums of the grand total message.
Issue(kind, n, cols, actual, target) ==
    [kind |-> kind, n |-> n, cols |-> cols, actual |-> actual, target |-> target]

\* validator.py:58-60
MissingIssue(df) ==
    LET missing == SelectSeq(REQUIRED_COLS, LAMBDA c : c \notin df.columns)
    IN  IF missing # <<>> THEN <<Issue("Missing columns", 0, missing, 0, 0)>> ELSE <<>>

\* validator.py:69: to_numeric(Qty).fillna(-1) <= 0
BadQty(row) == QtyNumeric(row.Qty) = NoneV \/ QtyNumeric(row.Qty).n <= 0

\* validator.py:69-71
QtyIssue(df) ==
    LET n == Cardinality({i \in 1..Len(df.rows) : BadQty(df.rows[i])})
    IN  IF n > 0 THEN <<Issue("non-positive Qty", n, <<>>, 0, 0)>> ELSE <<>>

\* validator.py:74-75
BadUpc(row) == ~_upc_ok(UpcDigits(row.UPC))

\* validator.py:74-77
UpcIssue(df) ==
    LET n == Cardinality({i \in 1..Len(df.rows) : BadUpc(df.rows[i])})
    IN  IF n > 0 THEN <<Issue("UPC-A check digit", n, <<>>, 0, 0)>> ELSE <<>>

\* validator.py:83
MissingPrices(row) == PriceNumeric(row.Rate) = NoneV \/ PriceNumeric(row.Amount) = NoneV

\* bad_amt without the "& ~missing_prices" of line 84: a row with a missing
\* price counts as an arithmetic failure too.
BadAmtOrMissing(row) ==
    LET q == IF QtyNumeric(row.Qty) = NoneV THEN 0 ELSE QtyNumeric(row.Qty).n
    IN  \/ MissingPrices(row)
        \/ Abs(q * PriceNumeric(row.Rate).n - PriceNumeric(row.Amount).n * 1000) > 10000

\* validator.py:80-84: |q*r - a| > 0.01 on a row with both prices, q being
\* to_numeric(Qty).fillna(0); the terms are in millionths.
BadAmt(row) ==
    LET q == IF QtyNumeric(row.Qty) = NoneV THEN 0 ELSE QtyNumeric(row.Qty).n
    IN  /\ ~MissingPrices(row)
        /\ Abs(q * PriceNumeric(row.Rate).n - PriceNumeric(row.Amount).n * 1000) > 10000

\* validator.py:85-87
ArithIssue(df) ==
    LET n == Cardinality({i \in 1..Len(df.rows) : BadAmt(df.rows[i])})
    IN  IF n > 0 THEN <<Issue("Qty*Rate != Amount", n, <<>>, 0, 0)>> ELSE <<>>

\* validator.py:88-89
MissingPricesIssue(df) ==
    LET n == Cardinality({i \in 1..Len(df.rows) : MissingPrices(df.rows[i])})
    IN  IF n > 0 THEN <<Issue("missing Rate or Amount", n, <<>>, 0, 0)>> ELSE <<>>

\* validator.py:91: the metadata carry a total to reconcile.
HasTotal(meta) ==
    /\ meta.total # NoneStr
    /\ Strip(meta.total) \notin {<<>>, <<"N", "/", "A">>, <<"N", "o", "n", "e">>}

\* validator.py:93-94: the sum of the amounts that are numbers, NoneV (NaN)
\* when there is none.
RECURSIVE SumAmounts(_)
SumAmounts(rows) ==
    IF rows = <<>> THEN 0
    ELSE (IF PriceNumeric(Head(rows).Amount) = NoneV THEN 0
          ELSE PriceNumeric(Head(rows).Amount).n) + SumAmounts(Tail(rows))

\* actual without the "if not valid_amt.empty" of line 94: the sum of no
\* amounts is 0.
ActualZeroWhenNone(df) == Num(SumAmounts(df.rows))

\* validator.py:93-94
Actual(df) ==
    IF \A i \in 1..Len(df.rows) : PriceNumeric(df.rows[i].Amount) = NoneV THEN NoneV
    ELSE Num(SumAmounts(df.rows))

\* validator.py:91-96, when _to_money returns
TotalIssue(df, meta) ==
    IF /\ HasTotal(meta)
       /\ Actual(df) # NoneV
       /\ Abs(Actual(df).n - _to_money(meta.total).n) > 10
    THEN <<Issue("Grand total mismatch", 0, <<>>, Actual(df).n, _to_money(meta.total).n)>>
    ELSE <<>>

\* What run_qa_checks does: it returns a report or it raises.
Report(ok, summary) == [kind |-> "report", ok |-> ok, summary |-> summary]

QaRaised == [kind |-> "raise", ok |-> FALSE, summary |-> <<>>]

NoQaOut == [kind |-> "none", ok |-> FALSE, summary |-> <<>>]

\* run_qa_checks returning at the first issue it finds.
run_qa_checks_first_issue(df, meta) ==
    LET all ==
            MissingIssue(df)
            \o (IF ~Empty(df) /\ Needed \subseteq df.columns
                THEN QtyIssue(df) \o UpcIssue(df) \o ArithIssue(df)
                     \o MissingPricesIssue(df)
                     \o (IF HasTotal(meta) /\ _to_money(meta.total) = MoneyRaised
                         THEN <<>> ELSE TotalIssue(df, meta))
                ELSE <<>>)
    IN  IF all = <<>> THEN Report(TRUE, <<>>) ELSE Report(FALSE, <<Head(all)>>)

\* validator.py:35-98
run_qa_checks(df, meta) ==
    IF Empty(df) THEN Report(MissingIssue(df) = <<>>, MissingIssue(df))
    ELSE IF ~(Needed \subseteq df.columns) THEN Report(FALSE, MissingIssue(df))
    ELSE IF HasTotal(meta) /\ _to_money(meta.total) = MoneyRaised THEN QaRaised
    ELSE LET issues ==
                 MissingIssue(df) \o QtyIssue(df) \o UpcIssue(df) \o ArithIssue(df)
                 \o MissingPricesIssue(df) \o TotalIssue(df, meta)
         IN  Report(issues = <<>>, issues)

\* Rows of a table: one that passes every check; a zero quantity, a wrong
\* check digit and an amount that is not qty * rate; a quantity and a UPC
\* given as text with blanks, and no rate; no quantity and a short UPC; two
\* that pass every check, with the amounts 50.00 and "$40.00"; one whose
\* amount is "N/A".
QaRowPool ==
    {[Qty |-> Num(2), UPC |-> Str(<<"0", "3", "6", "0", "0", "0", "2", "9", "1", "4", "5", "2">>), Rate |-> Num(3000), Amount |-> Num(6000)],
     [Qty |-> Num(0), UPC |-> Str(<<"0", "3", "6", "0", "0", "0", "2", "9", "1", "4", "5", "3">>), Rate |-> Str(<<"$", "1", ".", "5", "0">>), Amount |-> Str(<<"3", ".", "0", "0">>)],
     [Qty |-> Str(<<"2">>), UPC |-> Str(<<"0", " ", "3", "6", "0", "0", "0", " ", "2", "9", "1", "4", "5", " ", "2">>), Rate |-> Str(<<>>), Amount |-> Num(5000)],
     [Qty |-> NoneV, UPC |-> Str(<<"1", "2", "3">>), Rate |-> Num(1000), Amount |-> Num(2000)],
     [Qty |-> Num(5), UPC |-> Str(<<"0", "1", "2", "3", "4", "5", "6", "7", "8", "9", "0", "5">>), Rate |-> Num(10000), Amount |-> Num(50000)],
     [Qty |-> Num(4), UPC |-> Str(<<"0", "3", "6", "0", "0", "0", "2", "9", "1", "4", "5", "2">>), Rate |-> Str(<<"$", "1", "0", ".", "0", "0">>), Amount |-> Str(<<"$", "4", "0", ".", "0", "0">>)],
     [Qty |-> Num(1), UPC |-> Str(<<"0", "1", "2", "3", "4", "5", "6", "7", "8", "9", "0", "5">>), Rate |-> Num(2500), Amount |-> Str(<<"N", "/", "A">>)]}

\* The columns of a table: all of them, all but Brand, all but Rate, all but
\* Qty and Brand, and none.
QaColumnSets ==
    LET all == {REQUIRED_COLS[i] : i \in 1..Len(REQUIRED_COLS)}
    IN  {all, all \ {"Brand"}, all \ {"Rate"}, all \ {"Qty", "Brand"}, {}}

\* meta["total"]: absent, "N/A", three totals that parse and one that does not.
QaTotals ==
    {NoneStr, <<"N", "/", "A">>, <<"U", "S", "D", " ", "6", ".", "0", "0">>, <<"(", "1", ".", "0", "0", ")">>, <<"a", "b", "c">>,
     <<"$", "1", "0", "0", ".", "0", "0">>}

\* The row as a table with the columns cols holds it.
ProjectRow(row, cols) ==
    [Qty |-> IF "Qty" \in cols THEN row.Qty ELSE NoneV,
     UPC |-> IF "UPC" \in cols THEN row.UPC ELSE NoneV,
     Rate |-> IF "Rate" \in cols THEN row.Rate ELSE NoneV,
     Amount |-> IF "Amount" \in cols THEN row.Amount ELSE NoneV]

\* The tables and metadata run_qa_checks is called with.
QaInputs ==
    {[df |-> [columns |-> cols,
              rows |-> [i \in 1..Len(rs) |-> ProjectRow(rs[i], cols)]],
      meta |-> [total |-> t]] :
        cols \in QaColumnSets, rs \in SeqsUpTo(QaRowPool, MaxQaRows), t \in QaTotals}

\* Bound: the longest string _upc_ok is called with.
MaxUpcLen == 13

\* The first eleven digits of the UPCs of tests/core/test_validator.py:21-31.
UpcBases ==
    {<<"0", "3", "6", "0", "0", "0", "2", "9", "1", "4", "5">>, <<"0", "1", "2", "3", "4", "5", "6", "7", "8", "9", "0">>, <<"0", "0", "0", "0", "0", "0", "0", "0", "0", "0", "0">>, <<"1", "1", "1", "1", "1", "1", "1", "1", "1", "1", "1">>}

\* str(upc) of the value _upc_ok is given: the string itself, "None" for None.
PyStr(v) == IF v.t = "str" THEN v.s ELSE <<"N", "o", "n", "e">>

\* The values _upc_ok is called with: every base followed by every check
\* digit, cut or padded with zeros to every length up to MaxUpcLen; the same
\* with a letter or a blank in the place of a digit; and None.
UpcInputs ==
    LET Pad == [i \in 1..MaxUpcLen |-> "0"]
        Full == {b \o <<d>> \o Pad : b \in UpcBases, d \in Digits}
        Cut == {SubSeq(f, 1, k) : f \in Full, k \in 0..MaxUpcLen}
        Twelve == {c \in Cut : Len(c) = 12}
    IN  {Str(c) : c \in Cut}
        \cup {Str([c EXCEPT ![k] = x]) : c \in Twelve, k \in {1, 12}, x \in {"a", " "}}
        \cup {NoneV}

\* _upc_ok(upc)
CheckUpc ==
    /\ upcOut = "none"
    /\ upcOut' = IF _upc_ok(PyStr(upcIn)) THEN "True" ELSE "False"
    /\ UNCHANGED <<orchVars, tierVars, restVars, qaVars, upcIn, textVars, logVars, appVars>>

NoQaIn == [df |-> [columns |-> {}, rows |-> <<>>], meta |-> [total |-> NoneStr]]

\* run_qa_checks(df, meta)
RunQa ==
    /\ qaOut.kind = "none"
    /\ qaOut' = run_qa_checks(qaIn.df, qaIn.meta)
    /\ UNCHANGED <<orchVars, tierVars, qaIn, auxVars>>

----------------------------------------------------------------------------
(* The re module: a pattern is data, matched as re matches it, by          *)
(* backtracking in the order of priority. A match attempt gives the        *)
(* sequence of its possible outcomes [pos, caps], the preferred first: pos *)
(* is the index after the match, caps the groups closed so far.            *)

\* [...] and a literal character
ReSet(chars) == [op |-> "set", chars |-> chars, neg |-> FALSE]

\* [^...]
ReNot(chars) == [op |-> "set", chars |-> chars, neg |-> TRUE]

\* "." without re.S: any character but the newline
ReDot == ReNot({"\n"})

\* \s
ReSpace == ReSet({" ", "\n", "\t"})

\* \d
ReDigit == ReSet(Digits)

\* [A-Z]
ReUpper == ReSet({UpperLetters[i] : i \in 1..26})

\* [A-Z0-9]
ReUpperDigit == ReSet({UpperLetters[i] : i \in 1..26} \cup Digits)

\* One pattern after the other.
ReSeq(items) == [op |-> "seq", items |-> items]

\* x{min,max}, greedy or lazy; max = -1 is no upper limit.
ReRep(item, min, max, greedy) ==
    [op |-> "rep", item |-> item, min |-> min, max |-> max, greedy |-> greedy]

\* x*, x+, x?
ReStar(item) == ReRep(item, 0, -1, TRUE)

RePlus(item) == ReRep(item, 1, -1, TRUE)

ReOpt(item) == ReRep(item, 0, 1, TRUE)

\* (x) and (?P<name>x)
ReGroup(name, item) == [op |-> "grp", name |-> name, item |-> item]

\* The characters of str, as they are.
ReLit(str) == ReSeq([i \in 1..Len(str) |-> ReSet({str[i]})])

\* The characters of str under flags=re.I.
ReLitI(str) == ReSeq([i \in 1..Len(str) |-> ReSet({LowerChar(str[i]), UpperChar(str[i])})])

\* The outcomes rs of the body of a group that opened at lo, the group closed.
ReClose(name, lo, rs) ==
    [k \in 1..Len(rs) |->
        [pos |-> rs[k].pos,
         caps |-> Append(rs[k].caps, [name |-> name, lo |-> lo, hi |-> rs[k].pos])]]

RECURSIVE ReMatch(_, _, _, _)
RECURSIVE ReMatchEach(_, _, _, _, _)
RECURSIVE ReSeqFrom(_, _, _, _)
RECURSIVE ReRepFrom(_, _, _, _)
RECURSIVE ReRepEach(_, _, _, _, _)

\* The outcomes of matching the pattern n in s at index i.
ReMatch(n, s, i, caps) ==
    CASE n.op = "set" ->
            IF i <= Len(s) /\ ((s[i] \in n.chars) # n.neg)
            THEN <<[pos |-> i + 1, caps |-> caps]>> ELSE <<>>
      [] n.op = "seq" -> ReSeqFrom(n.items, 1, s, <<[pos |-> i, caps |-> caps]>>)
      [] n.op = "rep" -> ReRepFrom(n, s, [pos |-> i, caps |-> caps], 0)
      [] n.op = "grp" -> ReClose(n.name, i, ReMatch(n.item, s, i, caps))

\* The outcomes of matching n after each of the outcomes rs[lo..hi], in
\* their order.
ReMatchEach(n, s, rs, lo, hi) ==
    IF lo > hi THEN <<>>
    ELSE IF lo = hi THEN ReMatch(n, s, rs[lo].pos, rs[lo].caps)
    ELSE ReMatchEach(n, s, rs, lo, (lo + hi) \div 2)
         \o ReMatchEach(n, s, rs, (lo + hi) \div 2 + 1, hi)

\* The items from the k-th on, after the outcomes rs of the items before.
ReSeqFrom(items, k, s, rs) ==
    IF k > Len(items) THEN rs
    ELSE ReSeqFrom(items, k + 1, s, ReMatchEach(items[k], s, rs, 1, Len(rs)))

\* A repetition of a character set from the index i: the run of characters
\* of the set that starts at i has one outcome for each allowed length, the
\* longest first for a greedy repetition and the shortest first for a lazy
\* one.
ReRunLen(n, s, i) ==
    LET fits(k) == /\ n.max < 0 \/ k <= n.max
                   /\ \A j \in i..(i + k - 1) : (s[j] \in n.item.chars) # n.item.neg
        lens == {k \in 0..(Len(s) - i + 1) : fits(k)}
    IN  CHOOSE k \in lens : \A j \in lens : j <= k

ReRun(n, s, i, caps) ==
    LET longest == ReRunLen(n, s, i)
        count == IF longest < n.min THEN 0 ELSE longest - n.min + 1
    IN  [k \in 1..count |->
            [pos |-> i + (IF n.greedy THEN longest - k + 1 ELSE n.min + k - 1),
             caps |-> caps]]

\* A repetition after count iterations that ended with the outcome r: a
\* greedy one prefers another iteration, a lazy one prefers to stop.
ReRepFrom(n, s, r, count) ==
    IF n.item.op = "set" /\ count = 0 THEN ReRun(n, s, r.pos, r.caps) ELSE
    LET more == IF n.max < 0 \/ count < n.max
                THEN ReRepEach(n, s, ReMatch(n.item, s, r.pos, r.caps), r.pos, count + 1)
                ELSE <<>>
        stop == IF count >= n.min THEN <<r>> ELSE <<>>
    IN  IF n.greedy THEN more \o stop ELSE stop \o more

\* The repetition continued after each outcome xs of one more iteration that
\* began at lo; an iteration that matched nothing ends the repetition.
ReRepEach(n, s, xs, lo, count) ==
    IF xs = <<>> THEN <<>>
    ELSE (IF Head(xs).pos > lo THEN ReRepFrom(n, s, Head(xs), count) ELSE <<>>)
         \o ReRepEach(n, s, Tail(xs), lo, count)

\* No match: what re.search gives as None.
ReNone == [lo |-> 0, hi |-> 0, caps |-> <<>>]

\* The match of re.search(n, s) among the starts from i on: the leftmost
\* start that has an outcome, with its preferred outcome.
ReSearchFrom(n, s, i) ==
    LET starts == {k \in i..(Len(s) + 1) : ReMatch(n, s, k, <<>>) # <<>>}
    IN  IF starts = {} THEN ReNone
        ELSE LET lo == CHOOSE k \in starts : \A j \in starts : k <= j
                 r == Head(ReMatch(n, s, lo, <<>>))
             IN  [lo |-> lo, hi |-> r.pos, caps |-> r.caps]

\* re.search(n, s)
re_search(n, s) == ReSearchFrom(n, s, 1)

\* m.group(name): the text of the group as it was closed last, None when the
\* group took no part in the match.
ReGroupOf(m, s, name) ==
    LET hits == {k \in 1..Len(m.caps) : m.caps[k].name = name}
    IN  IF hits = {} THEN NoneStr
        ELSE LET k == CHOOSE x \in hits : \A y \in hits : y <= x
             IN  SubSeq(s, m.caps[k].lo, m.caps[k].hi - 1)

\* n.finditer(s): the matches from left to right, each search starting where
\* the match before ended.
RECURSIVE ReFinditerFrom(_, _, _)
ReFinditerFrom(n, s, i) ==
    LET m == ReSearchFrom(n, s, i)
    IN  IF m.lo = 0 THEN <<>>
        ELSE <<m>> \o ReFinditerFrom(n, s, IF m.hi > m.lo THEN m.hi ELSE m.hi + 1)

re_finditer(n, s) == ReFinditerFrom(n, s, 1)

----------------------------------------------------------------------------
(* The text of a document: _extract_all_text, extract_header_meta and the  *)
(* regex tier on the text. A document is [texts, plumber, pypdf]: the text *)
(* of each page (extract_text() or ""), and for each reader -1 when it     *)
(* reads every page, else the number of pages it reads before it raises (0 *)
(* when it cannot be imported or cannot open the file).                    *)

\* Bound
MaxPages == 2

PdfDoc(texts, plumber, pypdf) == [texts |-> texts, plumber |-> plumber, pypdf |-> pypdf]

\* parser.py:620-634 for one reader: the strings it appends to pages.
ReaderPages(texts, reader) == IF reader < 0 THEN texts ELSE SubSeq(texts, 1, reader)

\* parser.py:604-635: pdfplumber's pages are returned when it does not raise;
\* when it raises, what it appended stays in the list and PyPDF2 appends to
\* the same list, up to where it raises itself.
_extract_all_text(d) ==
    IF d.plumber < 0 THEN d.texts
    ELSE ReaderPages(d.texts, d.plumber) \o ReaderPages(d.texts, d.pypdf)

\* parser.py:74
PoPatterns ==
    <<ReSeq(<<ReLitI(<<"P", "O">>), ReStar(ReSpace), ReOpt(ReSet({"#"})), ReStar(ReSpace),
              ReGroup("1", ReRep(ReDigit, 4, -1, TRUE))>>),
      ReSeq(<<ReLitI(<<"P", "u", "r", "c", "h", "a", "s", "e">>), RePlus(ReSpace),
              ReLitI(<<"O", "r", "d", "e", "r">>), ReStar(ReSpace), ReOpt(ReSet({"#"})), ReStar(ReSpace),
              ReGroup("1", ReRep(ReDigit, 4, -1, TRUE))>>)>>

\* parser.py:76
VendorPatterns ==
    <<ReSeq(<<ReLitI(<<"V", "e", "n", "d", "o", "r">>), ReStar(ReSpace), ReSet({"#"}), ReStar(ReSpace),
              ReGroup("1", RePlus(ReDigit))>>),
      ReSeq(<<ReLitI(<<"V", "e", "n", "d", "o", "r">>), ReStar(ReSpace), ReLitI(<<"N", "o">>),
              ReOpt(ReSet({"."})), ReStar(ReSpace), ReGroup("1", RePlus(ReDigit))>>)>>

\* parser.py:79-80
ShipByPatterns ==
    <<ReSeq(<<ReLitI(<<"S", "H", "I", "P">>), ReStar(ReSpace),
              ReOpt(ReSeq(<<ReLitI(<<"C", "O", "M", "P", "L", "E", "T", "E">>), ReStar(ReSpace)>>)),
              ReLitI(<<"B", "Y">>), ReStar(ReSpace), ReLitI(<<"D", "A", "T", "E">>), ReOpt(ReSet({":"})),
              ReStar(ReSpace), ReGroup("1", ReRep(ReSet(Digits \cup {"/", "-"}), 6, 10, TRUE))>>),
      ReSeq(<<ReLitI(<<"S", "h", "i", "p">>), ReStar(ReSpace), ReLitI(<<"B", "y">>), ReOpt(ReSet({":"})),
              ReStar(ReSpace), ReGroup("1", ReRep(ReSet(Digits \cup {"/", "-"}), 6, 10, TRUE))>>)>>

\* parser.py:84
TermsPatterns ==
    <<ReSeq(<<ReLitI(<<"P", "A", "Y", "M", "E", "N", "T">>), ReStar(ReSpace),
              ReLitI(<<"T", "E", "R", "M", "S">>), ReOpt(ReSet({":"})), ReStar(ReSpace),
              ReGroup("1", RePlus(ReDot))>>),
      ReSeq(<<ReLitI(<<"T", "e", "r", "m", "s">>), ReOpt(ReSet({":"})), ReStar(ReSpace),
              ReGroup("1", RePlus(ReDot))>>)>>

\* parser.py:90-91
TotalPattern ==
    ReSeq(<<ReLitI(<<"T", "o", "t", "a", "l">>), ReStar(ReSpace), ReOpt(ReSet({"$"})), ReStar(ReSpace),
            ReGroup("1", ReSeq(<<ReRep(ReDigit, 1, 3, TRUE),
                                 ReStar(ReSeq(<<ReSet({","}), ReRep(ReDigit, 3, 3, TRUE)>>)),
                                 ReSet({"."}), ReRep(ReDigit, 2, 2, TRUE)>>))>>)

\* _pick trying the patterns from the last to the first.
RECURSIVE PickFromLast(_, _, _)
PickFromLast(patterns, k, text) ==
    IF k > Len(patterns) THEN NoneStr
    ELSE LET m == re_search(patterns[Len(patterns) - k + 1], text)
         IN  IF m.lo # 0 THEN Strip(ReGroupOf(m, text, "1"))
             ELSE PickFromLast(patterns, k + 1, text)

\* parser.py:68-73, the patterns from the k-th on: the stripped group of the
\* first pattern that matches, None when none does.
RECURSIVE PickFrom(_, _, _)
PickFrom(patterns, k, text) ==
    IF k > Len(patterns) THEN NoneStr
    ELSE LET m == re_search(patterns[k], text)
         IN  IF m.lo # 0 THEN Strip(ReGroupOf(m, text, "1"))
             ELSE PickFrom(patterns, k + 1, text)

_pick(patterns, text) == PickFrom(patterns, 1, text)

\* The loop over the pages without reversed(): from the first page on, k
\* pages being left.
RECURSIVE TotalFromFirst(_, _)
TotalFromFirst(pages, k) ==
    IF k = 0 THEN NoneStr
    ELSE LET m == re_search(TotalPattern, pages[Len(pages) - k + 1])
         IN  IF m.lo # 0 THEN ReGroupOf(m, pages[Len(pages) - k + 1], "1")
             ELSE TotalFromFirst(pages, k - 1)

\* parser.py:88-95, the pages from the k-th down to the first.
RECURSIVE TotalFrom(_, _)
TotalFrom(pages, k) ==
    IF k = 0 THEN NoneStr
    ELSE LET m == re_search(TotalPattern, pages[k])
         IN  IF m.lo # 0 THEN ReGroupOf(m, pages[k], "1")
             ELSE TotalFrom(pages, k - 1)

\* x or "N/A": None and "" give "N/A".
OrNA(x) == IF x = NoneStr \/ x = <<>> THEN <<"N", "/", "A">> ELSE x

\* parser.py:97-104, from the list of page texts
HeaderMetaOf(pages, first) ==
    [po_number |-> OrNA(_pick(PoPatterns, first)),
     vendor_number |-> OrNA(_pick(VendorPatterns, first)),
     ship_by_date |-> OrNA(_pick(ShipByPatterns, first)),
     payment_terms |-> OrNA(_pick(TermsPatterns, first)),
     total |-> OrNA(TotalFrom(pages, Len(pages))),
     page_count |-> Len(pages)]

\* parser.py:44-104
extract_header_meta(d) ==
    LET pages == _extract_all_text(d)
    IN  HeaderMetaOf(pages, IF pages # <<>> THEN pages[1] ELSE <<>>)

\* money_pat of parser.py:559
MoneyPat ==
    ReSeq(<<ReOpt(ReSeq(<<ReLit(<<"U", "S", "D">>), ReStar(ReSpace)>>)), ReOpt(ReSet({"$"})),
            ReRep(ReDigit, 1, 3, TRUE),
            ReStar(ReSeq(<<ReSet({","}), ReRep(ReDigit, 3, 3, TRUE)>>)),
            ReSet({"."}), ReRep(ReDigit, 2, 2, TRUE)>>)

\* pat of parser.py:562-570
ItemPat ==
    ReSeq(<<ReGroup("qty", ReRep(ReDigit, 1, 4, TRUE)), RePlus(ReSpace),
            ReGroup("sku", ReSeq(<<ReRep(ReUpperDigit, 1, 1, TRUE), ReRep(ReUpper, 2, 2, TRUE),
                                   ReRep(ReDigit, 4, 4, TRUE), ReSet({"-"}),
                                   ReRep(ReDigit, 2, 2, TRUE), ReSet({"-"}),
                                   ReUpper, ReRep(ReDigit, 4, 4, TRUE), ReSet({"-"}),
                                   ReRep(ReUpperDigit, 5, 5, TRUE)>>)),
            RePlus(ReSpace),
            ReOpt(ReGroup("dev", ReRep(ReUpperDigit, 2, -1, TRUE))), ReStar(ReSpace),
            ReGroup("upc", ReRep(ReDigit, 8, 14, TRUE)), RePlus(ReSpace),
            ReGroup("branddesc", ReRep(ReDot, 1, -1, FALSE)), RePlus(ReSpace),
            ReGroup("rate", MoneyPat), RePlus(ReSpace),
            ReGroup("amount", MoneyPat)>>)

\* parser.py:557-558
RegexText(pages) == CollapseWs(Join(pages, <<" ">>))

\* parser.py:573-574: m.groupdict() of each match of pat.finditer(text).
GroupDict(m, text) ==
    [qty |-> ReGroupOf(m, text, "qty"), sku |-> ReGroupOf(m, text, "sku"),
     dev |-> ReGroupOf(m, text, "dev"), upc |-> ReGroupOf(m, text, "upc"),
     branddesc |-> ReGroupOf(m, text, "branddesc"), rate |-> ReGroupOf(m, text, "rate"),
     amount |-> ReGroupOf(m, text, "amount")]

PatMatches(text) ==
    LET ms == re_finditer(ItemPat, text)
    IN  [k \in 1..Len(ms) |-> GroupDict(ms[k], text)]

\* Page texts with header fields:
\*   1. all five fields by the first pattern of each list, the terms followed by a blank;
\*   2. the four fields by the second pattern of each list;
\*   3. both PO patterns match, the second one earlier in the text;
\*   4. a total, and a terms pattern that captures a blank only;
\*   5. nothing recognizable.
PageTexts ==
    {<<"P", "O", " ", "#", "1", "2", "3", "4", "5", "\n", "V", "e", "n", "d", "o", "r", " ", "#",
      " ", "7", "7", "\n", "S", "H", "I", "P", " ", "C", "O", "M", "P", "L", "E", "T", "E",
      " ", "B", "Y", " ", "D", "A", "T", "E", ":", " ", "0", "1", "/", "0", "2", "/", "2", "0",
      "2", "4", "\n", "P", "A", "Y", "M", "E", "N", "T", " ", "T", "E", "R", "M", "S", ":",
      " ", "N", "e", "t", " ", "3", "0", " ", "\n", "T", "o", "t", "a", "l", " ", "$", "1",
      ",", "2", "3", "4", ".", "5", "6">>,
     <<"P", "u", "r", "c", "h", "a", "s", "e", " ", "O", "r", "d", "e", "r", " ", "9", "9", "9",
      "9", "9", "\n", "V", "e", "n", "d", "o", "r", " ", "N", "o", ".", " ", "8", "\n", "S",
      "h", "i", "p", " ", "B", "y", ":", " ", "3", "-", "4", "-", "2", "0", "2", "4", "\n",
      "T", "e", "r", "m", "s", ":", " ", "N", "e", "t", " ", "4", "5", "\n", "T", "O", "T",
      "A", "L", " ", "1", "0", ".", "0", "0">>,
     <<"P", "u", "r", "c", "h", "a", "s", "e", " ", "O", "r", "d", "e", "r", " ", "#", "4", "5",
      "6", "7", "\n", "P", "O", " ", "1", "2", "3", "\n", "P", "O", "#", "8", "9", "0", "1",
      "2">>,
     <<"F", "i", "n", "a", "l", " ", "p", "a", "g", "e", " ", "T", "o", "t", "a", "l", " ", "$",
      "5", ",", "0", "0", "0", ".", "0", "0", "\n", "T", "e", "r", "m", "s", ":", " ">>,
     <<"S", "o", "m", "e", " ", "t", "e", "x", "t">>}

\* The item line of the specification's example (parser.py:557-596).
ExampleItemText ==
    <<"2", " ", "A", "B", "C", "D", "1", "2", "A", "B", "3", "4", "-", "1", "2", "-", "X", "1",
      "2", "3", "4", "-", "A", "B", "C", "D", "E", " ", "G", "1", " ", "0", "1", "2", "3", "4",
      "5", "6", "7", "8", "9", "0", "1", " ", "A", "C", "M", "E", " ", "C", "o", "o", "l", " ",
      "T", "h", "i", "n", "g", " ", "$", "7", ".", "5", "0", " ", "$", "1", "5", ".", "0",
      "0">>

\* Page texts with item lines: the example; the same line with a SKU of the
\* form of parser.py:563; a line with no dev code, broken after the UPC.
ItemTexts ==
    {ExampleItemText,
     <<"2", " ", "1", "A", "B", "1", "2", "3", "4", "-", "1", "2", "-", "X", "1", "2", "3", "4",
      "-", "A", "B", "C", "D", "E", " ", "G", "1", " ", "0", "1", "2", "3", "4", "5", "6", "7",
      "8", "9", "0", "1", " ", "A", "C", "M", "E", " ", "C", "o", "o", "l", " ", "T", "h", "i",
      "n", "g", " ", "$", "7", ".", "5", "0", " ", "$", "1", "5", ".", "0", "0">>,
     <<"3", " ", "1", "A", "B", "1", "2", "3", "4", "-", "1", "2", "-", "X", "1", "2", "3", "4",
      "-", "A", "B", "C", "D", "E", " ", "0", "1", "2", "3", "4", "5", "6", "7", "8", "9", "0",
      "2", "\n", "A", "C", "M", "E", " ", "O", "t", "h", "e", "r", " ", "T", "h", "i", "n",
      "g", " ", "U", "S", "D", " ", "5", ".", "0", "0", " ", "$", "1", "0", ".", "0", "0">>}

\* The ways a reader ends on a document of n pages.
ReaderOutcomes(n) == {-1} \cup 0..(IF n = 0 THEN 0 ELSE n - 1)

\* The documents: every choice of at most MaxPages page texts with every way
\* the two readers end, and the item texts read by pdfplumber.
Pdfs ==
    UNION {{PdfDoc(ts, p, q) : p \in ReaderOutcomes(Len(ts)), q \in ReaderOutcomes(Len(ts))} :
              ts \in SeqsUpTo(PageTexts, MaxPages)}
    \cup {PdfDoc(ts, -1, -1) : ts \in SeqsUpTo(ItemTexts, MaxPages)}

NoPdf == PdfDoc(<<>>, -1, -1)

NoMeta ==
    [po_number |-> NoneStr, vendor_number |-> NoneStr, ship_by_date |-> NoneStr,
     payment_terms |-> NoneStr, total |-> NoneStr, page_count |-> 0]

\* extract_header_meta(pdf_path)
ExtractHeaderMeta ==
    /\ ~metaOut.done
    /\ metaOut' = [done |-> TRUE, pages |-> _extract_all_text(pdf),
                   meta |-> extract_header_meta(pdf)]
    /\ UNCHANGED <<orchVars, tierVars, restVars, qaVars, upcVars, pdf, regexOut, logVars, appVars>>

\* _extract_via_regex(pdf_path), the matches being those of pat in the text
ExtractViaRegex ==
    /\ ~regexOut.done
    /\ regexOut' =
        [done |-> TRUE,
         out |-> _extract_via_regex(
                     Document(FALSE, <<>>, PatMatches(RegexText(_extract_all_text(pdf)))))]
    /\ UNCHANGED <<orchVars, tierVars, restVars, qaVars, upcVars, pdf, metaOut, logVars, appVars>>

----------------------------------------------------------------------------
(* setup_logging (core/logging_config.py, pdf_utils/logging_config.py).    *)
(* The two modules hold the same function, each with its own _configured;  *)
(* a thread is [at, mod]: where it is in a call and of which module.       *)

\* Bounds: the threads of the process, and the calls they make in all.
MaxThreads == 2

MaxLogCalls == 3

Threads == 1..MaxThreads

LogModules == {"core", "pdf_utils"}

\* A thread that is not in setup_logging.
ThreadIdle == [at |-> "idle", mod |-> "core"]

\* A thread calls setup_logging of the module m.
SetupLoggingCall(t, m) ==
    /\ logPc[t].at = "idle"
    /\ logCalls < MaxLogCalls
    /\ logCalls' = logCalls + 1
    /\ logPc' = [logPc EXCEPT ![t] = [at |-> "check", mod |-> m]]
    /\ UNCHANGED <<orchVars, tierVars, restVars, qaVars, upcVars, textVars, appVars, _configured, applied>>

\* logging_config.py:25-26: `if _configured: return`
CheckConfigured(t) ==
    /\ logPc[t].at = "check"
    /\ logPc' = [logPc EXCEPT ![t].at =
                    IF _configured[logPc[t].mod] THEN "idle" ELSE "configure"]
    /\ UNCHANGED <<orchVars, tierVars, restVars, qaVars, upcVars, textVars, appVars, _configured, applied,
                   logCalls>>

\* logging_config.py:28-86: the configuration is built and dictConfig applies
\* it.
ApplyDictConfig(t) ==
    /\ logPc[t].at = "configure"
    /\ applied' = [applied EXCEPT ![logPc[t].mod] = @ + 1]
    /\ logPc' = [logPc EXCEPT ![t].at = "set"]
    /\ UNCHANGED <<orchVars, tierVars, restVars, qaVars, upcVars, textVars, appVars, _configured, logCalls>>

\* logging_config.py:86: dictConfig raises (a LOG_LEVEL that is no level, a
\* LOG_FILE that cannot be opened); the exception leaves setup_logging.
DictConfigRaises(t) ==
    /\ logPc[t].at = "configure"
    /\ logPc' = [logPc EXCEPT ![t].at = "idle"]
    /\ UNCHANGED <<orchVars, tierVars, restVars, qaVars, upcVars, textVars, appVars, _configured, applied,
                   logCalls>>

\* logging_config.py:87: `_configured = True`
SetConfigured(t) ==
    /\ logPc[t].at = "set"
    /\ _configured' = [_configured EXCEPT ![logPc[t].mod] = TRUE]
    /\ logPc' = [logPc EXCEPT ![t].at = "idle"]
    /\ UNCHANGED <<orchVars, tierVars, restVars, qaVars, upcVars, textVars, appVars, applied, logCalls>>

----------------------------------------------------------------------------
(* /api/convert (app.py). A request is [at, name, filename, timestamp]; a  *)
(* saved file is [ts, name, of]: the timestamp and the name of its path,   *)
(* and the request whose upload, or whose workbook, it holds.              *)

\* Bounds: the requests, and the seconds the clock runs through.
MaxRequests == 2

MaxClock == 1

Requests == 1..MaxRequests

\* app.py:22
ALLOWED_EXTENSIONS == {<<"p", "d", "f">>}

\* The index of the last "." of the name, 0 when it has none.
LastDot(s) ==
    IF \E i \in 1..Len(s) : s[i] = "." 
    THEN CHOOSE i \in 1..Len(s) : s[i] = "." /\ \A j \in (i + 1)..Len(s) : s[j] # "."
    ELSE 0

\* app.py:30-32
allowed_file(filename) ==
    /\ LastDot(filename) # 0
    /\ Lower(SubSeq(filename, LastDot(filename) + 1, Len(filename))) \in ALLOWED_EXTENSIONS

\* s.strip("._")
RECURSIVE StripDots(_)
StripDots(s) ==
    IF s # <<>> /\ Head(s) \in {".", "_"} THEN StripDots(Tail(s))
    ELSE IF s # <<>> /\ s[Len(s)] \in {".", "_"} THEN StripDots(SubSeq(s, 1, Len(s) - 1))
    ELSE s

\* werkzeug's secure_filename (app.py:141), on ASCII names: the path
\* separator becomes a blank, the words are joined with "_", the characters
\* other than letters, digits, "_", "." and "-" are removed, and the "." and
\* "_" at the ends are stripped.
secure_filename(name) ==
    LET blanks == [i \in 1..Len(name) |-> IF name[i] = "/" THEN " " ELSE name[i]]
        joined == [i \in 1..Len(CollapseWs(Strip(blanks))) |->
                      IF CollapseWs(Strip(blanks))[i] = " " THEN "_"
                      ELSE CollapseWs(Strip(blanks))[i]]
    IN  StripDots(SelectSeq(joined, LAMBDA c : IsWordChar(c) \/ c \in {".", "-"}))

\* filename.rsplit('.', 1)[0]
Stem(filename) ==
    IF LastDot(filename) = 0 THEN filename ELSE SubSeq(filename, 1, LastDot(filename) - 1)

\* The names of the uploaded files: a.pdf, "a b.pdf", a_b.pdf, x.txt, and
\* the empty name.
UploadNames ==
    {<<"a", ".", "p", "d", "f">>, <<"a", " ", "b", ".", "p", "d", "f">>,
     <<"a", "_", "b", ".", "p", "d", "f">>, <<"x", ".", "t", "x", "t">>, <<>>}

\* A request that has not arrived.
NoRequest == [at |-> "none", name |-> <<>>, filename |-> <<>>, timestamp |-> 0]

\* datetime.now() moves to the next second.
Tick ==
    /\ clock < MaxClock
    /\ clock' = clock + 1
    /\ UNCHANGED <<orchVars, tierVars, restVars, qaVars, upcVars, textVars, logVars, uploads, outputs, reqs>>

\* The files of the folder other than the one at the path (ts, name).
Others(files, ts, name) == {f \in files : ~(f.ts = ts /\ f.name = name)}

\* app.py:129-145: the request is refused with 400, or its upload is saved
\* at temp_uploads/{timestamp}_{filename}, over the file that is there.
ApiReceive(r, name) ==
    /\ reqs[r].at = "none"
    /\ IF name = <<>> \/ ~allowed_file(name)
       THEN /\ reqs' = [reqs EXCEPT ![r] = [NoRequest EXCEPT !.at = "400", !.name = name]]
            /\ UNCHANGED uploads
       ELSE /\ reqs' = [reqs EXCEPT ![r] =
                           [at |-> "saved", name |-> name,
                            filename |-> secure_filename(name), timestamp |-> clock]]
            /\ uploads' = Others(uploads, clock, secure_filename(name))
                              \cup {[ts |-> clock, name |-> secure_filename(name), of |-> r]}
    /\ UNCHANGED <<orchVars, tierVars, restVars, qaVars, upcVars, textVars, logVars, clock, outputs>>

\* The upload at the path of the request, as a set of at most one file.
UploadOf(r) == {f \in uploads : f.ts = reqs[r].timestamp /\ f.name = reqs[r].filename}

\* app.py:148-153: the data are extracted from the file at pdf_path and the
\* workbook is written at temp_outputs/{timestamp}_converted_{stem}.xlsx,
\* over the file that is there.
ApiConvert(r) ==
    /\ reqs[r].at = "saved"
    /\ UploadOf(r) # {}
    /\ outputs' = Others(outputs, reqs[r].timestamp, Stem(reqs[r].filename))
                      \cup {[ts |-> reqs[r].timestamp, name |-> Stem(reqs[r].filename),
                             of |-> (CHOOSE f \in UploadOf(r) : TRUE).of]}
    /\ reqs' = [reqs EXCEPT ![r].at = "written"]
    /\ UNCHANGED <<orchVars, tierVars, restVars, qaVars, upcVars, textVars, logVars, clock, uploads>>

\* app.py:148-153, 170-172: extract_data_from_pdf or write_to_excel raises (no
\* file at pdf_path, no data rows in the document): the answer is 500.
ApiConvertRaises(r) ==
    /\ reqs[r].at = "saved"
    /\ reqs' = [reqs EXCEPT ![r].at = "500"]
    /\ UNCHANGED <<orchVars, tierVars, restVars, qaVars, upcVars, textVars, logVars, clock, uploads, outputs>>

\* app.py:155-168: the file at pdf_path is removed and the answer is 200 with
\* download_url /download/{timestamp}_converted_{stem}.xlsx.
ApiRespond(r) ==
    /\ reqs[r].at = "written"
    /\ uploads' = uploads \ UploadOf(r)
    /\ reqs' = [reqs EXCEPT ![r].at = "200"]
    /\ UNCHANGED <<orchVars, tierVars, restVars, qaVars, upcVars, textVars, logVars, clock, outputs>>

\* 'download_url' of the answer of a request (app.py:167).
download_url(r) == [ts |-> reqs[r].timestamp, name |-> Stem(reqs[r].filename)]

----------------------------------------------------------------------------
(* The size sheet of the workbook (excel_io/excel_writer.py). A row of the *)
(* input table is [Description, Qty]; a row of the sheet is [Product,      *)
(* Total].                                                                 *)

\* Bound: the rows of the table written.
MaxSheetRows == 3

\* The characters of the descriptions in the order of their code points.
CodePoints ==
    <<" ", "(", ")", "-", "0", "1", "2", "3", "4", "5", "6", "7", "8", "9",
      "A", "B", "C", "D", "E", "F", "G", "H", "I", "J", "K", "L", "M", "N", "O", "P", "Q", "R", "S", "T", "U", "V", "W", "X", "Y", "Z",
      "a", "b", "c", "d", "e", "f", "g", "h", "i", "j", "k", "l", "m", "n", "o", "p", "q", "r", "s", "t", "u", "v", "w", "x", "y", "z">>

\* ord(c)
Ord(c) == CHOOSE i \in 1..Len(CodePoints) : CodePoints[i] = c

\* a < b for two str values.
StrLess(a, b) ==
    \E k \in 1..(Len(b)) :
        /\ \A j \in 1..(k - 1) : j <= Len(a) /\ a[j] = b[j]
        /\ (k > Len(a) \/ (k <= Len(a) /\ Ord(a[k]) < Ord(b[k])))

\* The size tokens of _TRAILING_SIZE_RE that carry no \b, in their spelling
\* without inner blanks, lower case.
RangeSizeTokens ==
    {<<"o", "n", "e", " ", "s", "i", "z", "e">>,
     <<"0", "-", "3", "m">>,
     <<"3", "-", "6", "m">>,
     <<"6", "-", "1", "2", "m">>,
     <<"1", "2", "-", "1", "8", "m">>,
     <<"1", "8", "-", "2", "4", "m">>,
     <<"0", "-", "2", "t">>,
     <<"2", "t", "-", "4", "t">>,
     <<"2", "t", "-", "5">>,
     <<"0", "-", "6", "m">>,
     <<"1", "2", "-", "2", "4", "m">>}

\* The size tokens of _TRAILING_SIZE_RE written between two \b.
WordSizeTokens ==
    {<<"2", "t">>, <<"3", "t">>, <<"4", "t">>, <<"5">>, <<"6">>, <<"7">>, <<"8">>, <<"1", "0">>}

\* \b at the position before s[i] (i in 1..Len(s)+1).
WordBoundary(s, i) ==
    (i > 1 /\ IsWordChar(s[i - 1])) # (i <= Len(s) /\ IsWordChar(s[i]))

\* The token t stands at s[i..]; s is the text in lower case, for
\* re.IGNORECASE.
TokenAt(s, i, t) ==
    /\ i + Len(t) - 1 <= Len(s)
    /\ \A m \in 1..Len(t) : s[i + m - 1] = t[m]

\* After a size token that ended before s[j]: an optional ")", blanks, and
\* the end of the string.
SizeTail(s, j) ==
    \E k \in {j, j + 1} :
        /\ k = j + 1 => (j <= Len(s) /\ s[j] = ")")
        /\ \A m \in k..Len(s) : IsSpace(s[m])

\* _TRAILING_SIZE_RE matches from s[i] to the end of s (s in lower case): a
\* run of blanks and dashes, an optional "(", a size token, SizeTail.
TrailingSizeAt(s, i) ==
    \E j \in i..(Len(s) + 1) :
        /\ \A m \in i..(j - 1) : IsSpace(s[m]) \/ s[m] = "-"
        /\ \E k \in {j, j + 1} :
              /\ k = j + 1 => (j <= Len(s) /\ s[j] = "(")
              /\ \/ \E t \in RangeSizeTokens : TokenAt(s, k, t) /\ SizeTail(s, k + Len(t))
                 \/ \E t \in WordSizeTokens :
                       /\ TokenAt(s, k, t)
                       /\ WordBoundary(s, k)
                       /\ WordBoundary(s, k + Len(t))
                       /\ SizeTail(s, k + Len(t))

\* s.strip(" -")
StripBlankDash(s) ==
    LET keep == {i \in 1..Len(s) : ~(s[i] \in {" ", "-"})}
    IN  IF keep = {} THEN <<>>
        ELSE SubSeq(s, CHOOSE i \in keep : \A j \in keep : i <= j,
                       CHOOSE i \in keep : \A j \in keep : i >= j)

\* excel_writer.py:647-658, on ASCII text: the leftmost match of
\* _TRAILING_SIZE_RE is removed from the stripped description.
_strip_trailing_size_from_description(desc) ==
    LET d == Strip(desc)
        low == Lower(d)
        starts == {i \in 1..Len(d) : TrailingSizeAt(low, i)}
    IN  IF starts = {} THEN Strip(StripBlankDash(d))
        ELSE Strip(StripBlankDash(
                 SubSeq(d, 1, (CHOOSE i \in starts : \A j \in starts : i <= j) - 1)))

\* work["__product__"] (excel_writer.py:313-314)
ProductOf(row) == _strip_trailing_size_from_description(row.Description)

\* work["__product__"] as a list, one product per row.
Products(rows) == [i \in 1..Len(rows) |-> ProductOf(rows[i])]

\* The sum of __qty__ over the first n rows of a product (aggfunc="sum", then
\* Total).
RECURSIVE ProductTotal(_, _, _, _)
ProductTotal(rows, products, product, n) ==
    IF n = 0 THEN 0
    ELSE (IF products[n] = product THEN rows[n].Qty ELSE 0)
             + ProductTotal(rows, products, product, n - 1)

\* The index of DataFrame.pivot_table(index="__product__", ...): the group
\* keys, sorted (pivot_table groups with sort=True).
PivotIndex(products) ==
    LET keys == {products[i] : i \in 1..Len(products)}
    IN  [i \in 1..Cardinality(keys) |->
            CHOOSE p \in keys : Cardinality({q \in keys : StrLess(q, p)}) = i - 1]

\* One row per key of the pivot table, in the order of its index; the merge
\* with rep_df (how="left") and the reindex of the columns keep that order.
PivotRows(rows, products, index) ==
    [i \in 1..Len(index) |->
        [Product |-> index[i], Total |-> ProductTotal(rows, products, index[i], Len(rows))]]

\* excel_writer.py:290-378
_to_sizesheet_by_product(rows) ==
    PivotRows(rows, Products(rows), PivotIndex(Products(rows)))

\* The descriptions of the rows written.
SheetDescriptions ==
    {<<"Z", "e", "b", "r", "a", " ", "T", "e", "e", " ", "-", " ", "3", "-", "6", "m">>,
     <<"Z", "e", "b", "r", "a", " ", "T", "e", "e", " ", "-", " ", "6", "-", "1", "2", "m">>,
     <<"A", "p", "p", "l", "e", " ", "H", "a", "t", " ", "(", "2", "T", ")">>,
     <<"A", "p", "p", "l", "e", " ", "H", "a", "t">>,
     <<"M", "a", "n", "g", "o", " ", "B", "i", "b", " ", "5">>}

SheetRows == [Description : SheetDescriptions, Qty : {1, 2}]

\* No sheet written.
NoSheet == [done |-> FALSE, rows |-> <<>>]

\* write_to_excel (excel_writer.py:170-202) writes the sheet "SizeSheet" from
\* _to_sizesheet_by_product(df).
WriteSizeSheet ==
    /\ ~sheetOut.done
    /\ sheetOut' = [done |-> TRUE, rows |-> _to_sizesheet_by_product(sheetIn)]
    /\ UNCHANGED <<orchVars, tierVars, qaVars, upcVars, textVars, logVars, appVars, hdrVars, bandVars,
                   tabVars, dedVars, sheetIn>>

----------------------------------------------------------------------------
(* The header line and the column windows: _find_header_and_columns. As in *)
(* the position tier, vertical centres, midpoints, header_y and the window *)
(* edges are kept doubled.                                                 *)

\* parser.py:328, tol = 4.0, doubled
HeaderTol2 == 8

\* parser.py:344, bands[:14]
HeaderBandLimit == 14

\* parser.py:391-392, cx - 70 and cx + 70, doubled
EdgeMargin2 == 140

\* parser.py:330-340: the word joins the first band within tol, or starts a
\* new band.
PlaceHeaderWord(bands, w) ==
    LET cy2 == w.top + w.bottom
        near == {i \in 1..Len(bands) : Abs(bands[i].y2 - cy2) <= HeaderTol2}
    IN  IF near = {} THEN Append(bands, [y2 |-> cy2, arr |-> <<w>>])
        ELSE LET i == CHOOSE k \in near : \A j \in near : k <= j
             IN  [bands EXCEPT ![i].arr = Append(@, w)]

\* parser.py:329-340
RECURSIVE HeaderBandLoop(_, _)
HeaderBandLoop(words, bands) ==
    IF words = <<>> THEN bands
    ELSE HeaderBandLoop(Tail(words), PlaceHeaderWord(bands, Head(words)))

\* parser.py:329-341
HeaderBands(words) ==
    LET bands == HeaderBandLoop(words, <<>>)
    IN  StableSort(bands, [i \in 1..Len(bands) |-> bands[i].y2])

\* parser.py:345, " ".join(w["text"].lower() for w in ws)
BandText(ws) == Join([i \in 1..Len(ws) |-> Lower(ws[i].text)], <<" ">>)

\* parser.py:346-353: the band is a header line.
IsHeaderBand(ws) ==
    LET text == BandText(ws)
    IN  /\ Contains(text, <<"q", "t", "y">>)
        /\ \/ Contains(text, <<"i", "t", "e", "m">>) /\ Contains(text, <<"s", "k", "u">>)
           \/ Contains(text, <<"i", "t", "e", "m", " ", "s", "k", "u">>)
           \/ Contains(text, <<"s", "k", "u">>)
        /\ Contains(text, <<"u", "p", "c">>)
        /\ \/ Contains(text, <<"r", "a", "t", "e">>)
           \/ Contains(text, <<"p", "r", "i", "c", "e">>)
           \/ Contains(text, <<"u", "n", "i", "t", " ", "p", "r", "i", "c", "e">>)
           \/ Contains(text, <<"a", "m", "o", "u", "n", "t">>)
           \/ Contains(text, <<"t", "o", "t", "a", "l">>)
           \/ Contains(text, <<"a", "m", "t">>)

\* The keys of `centers` in the order in which lines 368-381 test them.
HeaderKeys == <<"qty", "sku", "dev", "upc", "hts", "rate", "amount">>

\* parser.py:368-381: the word with the lower-case text t counts for the key k.
KeyIn(k, t) ==
    CASE k = "qty" -> Contains(t, <<"q", "t", "y">>)
      [] k = "sku" -> Contains(t, <<"i", "t", "e", "m">>) \/ Contains(t, <<"s", "k", "u">>)
      [] k = "dev" -> Contains(t, <<"d", "e", "v">>)
      [] k = "upc" -> Contains(t, <<"u", "p", "c">>)
      [] k = "hts" -> Contains(t, <<"h", "t", "s">>)
      [] k = "rate" -> \/ Contains(t, <<"r", "a", "t", "e">>)
                       \/ Contains(t, <<"p", "r", "i", "c", "e">>)
                       \/ Contains(t, <<"u", "n", "i", "t", " ", "p", "r", "i", "c", "e">>)
      [] k = "amount" -> \/ Contains(t, <<"a", "m", "o", "u", "n", "t">>)
                         \/ Contains(t, <<"t", "o", "t", "a", "l">>)
                         \/ Contains(t, <<"a", "m", "t">>)

\* sum(v)
RECURSIVE SumInts(_)
SumInts(v) == IF v = <<>> THEN 0 ELSE Head(v) + SumInts(Tail(v))

\* parser.py:365-383: `centers` as the list of its items, in the order in
\* which the keys were inserted; cx2 is the mean of the midpoints, doubled.
Centers(ws) ==
    LET hits == SelectSeq([n \in 1..(Len(ws) * Len(HeaderKeys)) |->
                              [w |-> ((n - 1) \div Len(HeaderKeys)) + 1,
                               k |-> HeaderKeys[((n - 1) % Len(HeaderKeys)) + 1]]],
                          LAMBDA p : KeyIn(p.k, Lower(ws[p.w].text)))
        firsts == SelectSeq([n \in 1..Len(hits) |-> [n |-> n, k |-> hits[n].k]],
                            LAMBDA h : \A m \in 1..(h.n - 1) : hits[m].k # h.k)
    IN  [i \in 1..Len(firsts) |->
            LET v == SelectSeq(hits, LAMBDA p : p.k = firsts[i].k)
            IN  [name |-> firsts[i].k,
                 cx2 |-> SumInts([j \in 1..Len(v) |-> ws[v[j].w].x0 + ws[v[j].w].x1])
                             \div Len(v)]]

\* parser.py:387, sorted(centers.items(), key=lambda kv: kv[1])
Ordered(centers) == StableSort(centers, [i \in 1..Len(centers) |-> centers[i].cx2])

\* parser.py:389-393: `ranges` before the brand/description window is added,
\* in the order of the dict.
Ranges(ordered) ==
    [i \in 1..Len(ordered) |->
        [name |-> ordered[i].name,
         left |-> IF i > 1 THEN (ordered[i - 1].cx2 + ordered[i].cx2) \div 2
                  ELSE ordered[i].cx2 - EdgeMargin2,
         right |-> IF i + 1 <= Len(ordered) THEN (ordered[i + 1].cx2 + ordered[i].cx2) \div 2
                   ELSE ordered[i].cx2 + EdgeMargin2]]

\* "name" in ranges
InRanges(ranges, name) == \E i \in 1..Len(ranges) : ranges[i].name = name

\* ranges[name]
RangeOf(ranges, name) == ranges[CHOOSE i \in 1..Len(ranges) : ranges[i].name = name]

\* ranges.get(a) or ranges.get(b) or ...: the range of the first of the names
\* that is in ranges; names is not empty and one of them is in ranges.
FirstRange(ranges, names) ==
    RangeOf(ranges, names[CHOOSE i \in 1..Len(names) :
                              /\ InRanges(ranges, names[i])
                              /\ \A j \in 1..(i - 1) : ~InRanges(ranges, names[j])])

\* The mutant of BrandDescWindow that leaves out lines 400-401.
BrandDescWindowWithoutHts(ranges) ==
    IF /\ \E n \in {"upc", "hts", "dev", "sku"} : InRanges(ranges, n)
       /\ \E n \in {"rate", "amount"} : InRanges(ranges, n)
    THEN <<[name |-> "branddesc",
            left |-> FirstRange(ranges, <<"upc", "hts", "dev", "sku">>).right,
            right |-> FirstRange(ranges, <<"rate", "amount">>).left]>>
    ELSE <<>>

\* parser.py:395-402: the item ranges["branddesc"], if it is set.
BrandDescWindow(ranges) ==
    IF /\ \E n \in {"upc", "hts", "dev", "sku"} : InRanges(ranges, n)
       /\ \E n \in {"rate", "amount"} : InRanges(ranges, n)
    THEN <<[name |-> "branddesc",
            left |-> IF /\ InRanges(ranges, "hts")
                        /\ RangeOf(ranges, "hts").right
                               > FirstRange(ranges, <<"upc", "hts", "dev", "sku">>).right
                     THEN RangeOf(ranges, "hts").right
                     ELSE FirstRange(ranges, <<"upc", "hts", "dev", "sku">>).right,
            right |-> FirstRange(ranges, <<"rate", "amount">>).left]>>
    ELSE <<>>

\* parser.py:343-404, for the bands of the page: the first header line among
\* the first bands gives header_y and the windows.
HeaderOfBands(bands) ==
    LET cand == {i \in 1..Len(bands) : i <= HeaderBandLimit /\ IsHeaderBand(bands[i].arr)}
    IN  IF cand = {} THEN NoHeader
        ELSE LET b == bands[CHOOSE i \in cand : \A j \in cand : i <= j]
             IN  IF Centers(b.arr) = <<>> THEN NoHeader
                 ELSE [found |-> TRUE, y2 |-> b.y2,
                       col_x |-> Ranges(Ordered(Centers(b.arr)))
                                     \o BrandDescWindow(Ranges(Ordered(Centers(b.arr))))]

\* parser.py:308-404
_find_header_and_columns(words) == HeaderOfBands(HeaderBands(words))

\* Bound: the words of the header line.
MaxHeaderWords == 5

\* The texts of the words of a header line.
HeaderTexts ==
    {<<"Q", "t", "y">>,
     <<"I", "t", "e", "m", "_", "S", "K", "U">>,
     <<"D", "e", "v", "_", "C", "o", "d", "e">>,
     <<"U", "P", "C">>,
     <<"H", "T", "S", "_", "C", "o", "d", "e">>,
     <<"R", "a", "t", "e">>,
     <<"A", "m", "o", "u", "n", "t">>}

\* A header line: words with different texts, from left to right, the i-th
\* with its midpoint at x = 100 * i - 50.
HeaderLines ==
    {[i \in 1..Len(ts) |->
         [x0 |-> 100 * i - 60, x1 |-> 100 * i - 40, top |-> 45, bottom |-> 55, text |-> ts[i]]] :
        ts \in {s \in SeqsUpTo(HeaderTexts, MaxHeaderWords) :
                   \A i, j \in 1..Len(s) : s[i] = s[j] => i = j}}

\* _find_header_and_columns has not run.
NoHeaderOut == [done |-> FALSE, out |-> NoHeader]

\* _find_header_and_columns(words)
FindHeaderAndColumns ==
    /\ ~hdrOut.done
    /\ hdrOut' = [done |-> TRUE, out |-> _find_header_and_columns(hdrIn)]
    /\ UNCHANGED <<orchVars, tierVars, qaVars, upcVars, textVars, logVars, appVars, sheetVars,
                   bandVars, tabVars, dedVars, hdrIn>>

----------------------------------------------------------------------------
(* The line bands of a page, as both functions compute them. *)

\* Bound: the words of the page.
MaxBandWords == 3

\* The y of the header line of the pages banded, doubled (y = 50).
BandHeaderY2 == 100

\* The tops of the words: one above the header line, the others below it, some
\* within the tolerance of each other.
WordTops == {40, 60, 64, 65, 70, 76}

\* The texts that tell the words of a page apart, in the order of the words.
WordNames == <<<<"a">>, <<"b">>, <<"c">>, <<"d">>, <<"e">>>>

\* The pages banded: words of height 10 in the order in which pdfplumber gives
\* them (use_text_flow=True: the order of the text in the file).
BandedPages ==
    {[i \in 1..Len(tops) |->
         [x0 |-> 100 * i, x1 |-> 100 * i + 20, top |-> tops[i], bottom |-> tops[i] + 10,
          text |-> WordNames[i]]] :
        tops \in SeqsUpTo(WordTops, MaxBandWords)}

\* No page banded.
NoBands == [done |-> FALSE, line |-> <<>>, header |-> <<>>]

\* The bands of the words of a page: those of _extract_via_positions
\* (parser.py:196-212) and those of _find_header_and_columns
\* (parser.py:328-341).
FindBands ==
    /\ ~bandOut.done
    /\ bandOut' = [done |-> TRUE,
                   line |-> LineBands(bandIn, BandHeaderY2),
                   header |-> HeaderBands(bandIn)]
    /\ UNCHANGED <<orchVars, tierVars, qaVars, upcVars, textVars, logVars, appVars, sheetVars,
                   hdrVars, tabVars, dedVars, bandIn>>

----------------------------------------------------------------------------
(* The table tier on rows of any number of cells. *)

\* Bounds: the cells of a row, and the rows of a table under its header row.
MaxCells == 10

MaxCellRows == 2

\* The decimal digits in order, and the text of a number below 100.
DigitChars == <<"0", "1", "2", "3", "4", "5", "6", "7", "8", "9">>

TwoDigits(n) == <<DigitChars[(n \div 10) + 1], DigitChars[(n % 10) + 1]>>

\* The i-th row of a table, of n cells: its k-th cell reads 10 * i + k, so that
\* the cells of a row all differ and every cell can be read as any field.
CellRow(i, n) == [k \in 1..n |-> TwoDigits(10 * i + k)]

\* The documents: one detected table, its header row and rows of 1 to MaxCells
\* cells.
CellDocs ==
    {Document(FALSE,
              <<Page(<<>>, NoHeader, FALSE,
                     <<<<TableHeaderRow>> \o [i \in 1..Len(ns) |-> CellRow(i, ns[i])]>>)>>,
              <<>>) :
        ns \in SeqsUpTo(1..MaxCells, MaxCellRows) \ {<<>>}}

\* No table read.
NoTableOut == [done |-> FALSE, out |-> Raised]

\* _extract_via_tables on the document (parser.py:446-534).
ExtractViaTables ==
    /\ ~tabOut.done
    /\ tabOut' = [done |-> TRUE, out |-> _extract_via_tables(tabIn)]
    /\ UNCHANGED <<orchVars, tierVars, qaVars, upcVars, textVars, logVars, appVars, sheetVars,
                   hdrVars, bandVars, dedVars, tabIn>>

----------------------------------------------------------------------------
(* _dedupe called on rows of any SKU and UPC text, as the tests call it. *)

\* Bound: the rows of the list.
MaxDedupeRows == 3

\* SKU and UPC texts: plain, padded, and with the character that _dedupe puts
\* between the two in its key.
DedupeSkus == {<<"a">>, <<"a", " ">>, <<"a", "|", "b">>}

DedupeUpcs == {<<"c">>, <<" ", "c">>, <<"b", "|", "c">>}

\* The lists of rows: the k-th row has the quantity k.
DedupeInputs ==
    {[k \in 1..Len(ks) |->
         ItemRow(Num(k), ks[k][1], <<>>, ks[k][2], <<>>, <<>>, <<>>, NoneV, NoneV)] :
        ks \in SeqsUpTo(DedupeSkus \X DedupeUpcs, MaxDedupeRows)}

\* No call made.
NoDedupe == [done |-> FALSE, out |-> <<>>]

\* _dedupe(rows) (parser.py:696-715).
Dedupe ==
    /\ ~dedOut.done
    /\ dedOut' = [done |-> TRUE, out |-> _dedupe(dedIn)]
    /\ UNCHANGED <<orchVars, tierVars, qaVars, upcVars, textVars, logVars, appVars, sheetVars,
                   hdrVars, bandVars, tabVars, dedIn>>

----------------------------------------------------------------------------
(* Specifications *)

\* The state after the modules are loaded, as the orchestrator sees it.
InitOrch ==
    /\ HEADER = CanonicalHeader
    /\ doc = NoPrev.doc
    /\ pc = "idle"
    /\ caller = "none"
    /\ invoked = <<>>
    /\ result = NoResult
    /\ prev = NoPrev
    /\ appOut = NoAppOut

\* No tier is run by itself.
IdleTiers == tierDoc = NoDocument /\ tierRun = NoRun

\* run_qa_checks is not called.
IdleQA == qaIn = NoQaIn /\ qaOut = NoQaOut

\* _upc_ok is not called.
IdleUpc == upcIn = NoneV /\ upcOut = "none"

\* No text is read.
IdleText ==
    /\ pdf = NoPdf
    /\ metaOut = [done |-> FALSE, pages |-> <<>>, meta |-> NoMeta]
    /\ regexOut = [done |-> FALSE, out |-> Raised]

\* The logging modules as they are after import, no thread in setup_logging.
IdleLogging ==
    /\ _configured = [m \in LogModules |-> FALSE]
    /\ logPc = [t \in Threads |-> ThreadIdle]
    /\ applied = [m \in LogModules |-> 0]
    /\ logCalls = 0

\* The folders of the application empty, no request received.
IdleApp ==
    /\ clock = 0
    /\ uploads = {}
    /\ outputs = {}
    /\ reqs = [r \in Requests |-> NoRequest]

\* No table given to write_to_excel.
IdleSheet ==
    /\ sheetIn = <<>>
    /\ sheetOut = NoSheet

\* No words given to _find_header_and_columns.
IdleHeader ==
    /\ hdrIn = <<>>
    /\ hdrOut = NoHeaderOut

\* No page to be banded.
IdleBands ==
    /\ bandIn = <<>>
    /\ bandOut = NoBands

\* No table of rows of any number of cells.
IdleTable ==
    /\ tabIn = NoDocument
    /\ tabOut = NoTableOut

\* No call of _dedupe by itself.
IdleDedupe ==
    /\ dedIn = <<>>
    /\ dedOut = NoDedupe

IdleRest == IdleSheet /\ IdleHeader /\ IdleBands /\ IdleTable /\ IdleDedupe

\* Nothing outside the parser and run_qa_checks runs.
IdleAux == IdleUpc /\ IdleText /\ IdleLogging /\ IdleApp /\ IdleRest

Init ==
    /\ InitOrch
    /\ IdleTiers
    /\ IdleQA
    /\ IdleAux

StartCall == \E d \in Docs, c \in {"direct", "app"} : Call(d, c)

PatchedCall == \E r \in StubResults : ExtractDataPatched(r)

Next ==
    \/ StartCall
    \/ TryPosition
    \/ TryTables
    \/ TryRegex
    \/ ReturnToCaller
    \/ ExtractDataFromPdfReturn
    \/ PatchedCall

Spec == Init /\ [][Next]_vars

CallerMutates == \E k \in 1..Len(HEADER) : CallerSetsHeaderCell(k, "X")

NextCaller ==
    \/ StartCall
    \/ TryPosition
    \/ TryTables
    \/ TryRegex
    \/ ReturnToCaller
    \/ ExtractDataFromPdfReturn
    \/ CallerMutates

SpecCaller == Init /\ [][NextCaller]_vars

\* Each tier by itself on a document.
InitTiers ==
    /\ InitOrch
    /\ tierDoc \in TierDocs
    /\ tierRun = NoRun
    /\ IdleQA
    /\ IdleAux

NextTiers ==
    \/ RunPositionTier
    \/ RunTableTier
    \/ RunRegexTier

SpecTiers == InitTiers /\ [][NextTiers]_vars

\* The validator on a table and its metadata.
InitQA ==
    /\ InitOrch
    /\ IdleTiers
    /\ qaIn \in QaInputs
    /\ qaOut = NoQaOut
    /\ IdleAux

NextQA == RunQa

SpecQA == InitQA /\ [][NextQA]_vars

\* _upc_ok on a value.
InitUpc ==
    /\ InitOrch
    /\ IdleTiers
    /\ IdleQA
    /\ upcIn \in UpcInputs
    /\ upcOut = "none"
    /\ IdleText
    /\ IdleLogging
    /\ IdleApp
    /\ IdleRest

NextUpc == CheckUpc

SpecUpc == InitUpc /\ [][NextUpc]_vars

\* extract_header_meta and the regex tier on the text of a document.
InitText ==
    /\ InitOrch
    /\ IdleTiers
    /\ IdleQA
    /\ IdleUpc
    /\ pdf \in Pdfs
    /\ metaOut = [done |-> FALSE, pages |-> <<>>, meta |-> NoMeta]
    /\ regexOut = [done |-> FALSE, out |-> Raised]
    /\ IdleLogging
    /\ IdleApp
    /\ IdleRest

NextText ==
    \/ ExtractHeaderMeta
    \/ ExtractViaRegex

SpecText == InitText /\ [][NextText]_vars

\* Threads calling setup_logging of the two modules.
NextLogging ==
    \/ \E t \in Threads, m \in LogModules : SetupLoggingCall(t, m)
    \/ \E t \in Threads : CheckConfigured(t)
    \/ \E t \in Threads : ApplyDictConfig(t)
    \/ \E t \in Threads : DictConfigRaises(t)
    \/ \E t \in Threads : SetConfigured(t)

SpecLogging == Init /\ [][NextLogging]_vars

\* Requests to /api/convert, served by the threads of the server.
NextApp ==
    \/ Tick
    \/ \E r \in Requests, name \in UploadNames : ApiReceive(r, name)
    \/ \E r \in Requests : ApiConvert(r)
    \/ \E r \in Requests : ApiConvertRaises(r)
    \/ \E r \in Requests : ApiRespond(r)

SpecApp == Init /\ [][NextApp]_vars

\* write_to_excel on one table.
InitSheet ==
    /\ InitOrch
    /\ IdleTiers
    /\ IdleQA
    /\ IdleUpc
    /\ IdleText
    /\ IdleLogging
    /\ IdleApp
    /\ sheetIn \in SeqsUpTo(SheetRows, MaxSheetRows)
    /\ sheetOut = NoSheet
    /\ IdleHeader
    /\ IdleBands
    /\ IdleTable
    /\ IdleDedupe

NextSheet == WriteSizeSheet

SpecSheet == InitSheet /\ [][NextSheet]_vars

\* _find_header_and_columns on the words of one line.
InitHeader ==
    /\ InitOrch
    /\ IdleTiers
    /\ IdleQA
    /\ IdleUpc
    /\ IdleText
    /\ IdleLogging
    /\ IdleApp
    /\ IdleSheet
    /\ hdrIn \in HeaderLines
    /\ hdrOut = NoHeaderOut
    /\ IdleBands
    /\ IdleTable
    /\ IdleDedupe

NextHeader == FindHeaderAndColumns

SpecHeader == InitHeader /\ [][NextHeader]_vars

\* The line bands of one page.
InitBands ==
    /\ InitOrch
    /\ IdleTiers
    /\ IdleQA
    /\ IdleUpc
    /\ IdleText
    /\ IdleLogging
    /\ IdleApp
    /\ IdleSheet
    /\ IdleHeader
    /\ bandIn \in BandedPages
    /\ bandOut = NoBands
    /\ IdleTable
    /\ IdleDedupe

NextBands == FindBands

SpecBands == InitBands /\ [][NextBands]_vars

\* The table tier on one table.
InitTable ==
    /\ InitOrch
    /\ IdleTiers
    /\ IdleQA
    /\ IdleUpc
    /\ IdleText
    /\ IdleLogging
    /\ IdleApp
    /\ IdleSheet
    /\ IdleHeader
    /\ IdleBands
    /\ tabIn \in CellDocs
    /\ tabOut = NoTableOut
    /\ IdleDedupe

NextTable == ExtractViaTables

SpecTable == InitTable /\ [][NextTable]_vars

\* _dedupe on one list of rows.
InitDedupe ==
    /\ InitOrch
    /\ IdleTiers
    /\ IdleQA
    /\ IdleUpc
    /\ IdleText
    /\ IdleLogging
    /\ IdleApp
    /\ IdleSheet
    /\ IdleHeader
    /\ IdleBands
    /\ IdleTable
    /\ dedIn \in DedupeInputs
    /\ dedOut = NoDedupe

NextDedupe == Dedupe

SpecDedupe == InitDedupe /\ [][NextDedupe]_vars

----------------------------------------------------------------------------
(* Claims about the orchestrator and its caller *)

\* A call of extract_table_rows has returned and its history is still there.
CallReturned == (pc = "done" \/ pc = "idle") /\ invoked # <<>>

\* The entry is a failed tier: it raised, or its candidate was not accepted.
Failed(e) == e.kind = "raise" \/ ~e.accepted

\* C1: in one call the tiers are invoked in the order position, table, regex,
\* each at most once; a tier is invoked only after every earlier tier raised or
\* gave a candidate that was not accepted; an accepted candidate is returned at
\* once and no later tier is invoked.
C1_TiersInOrder ==
    /\ Len(invoked) <= 3
    /\ pc = "position" => Len(invoked) = 0
    /\ pc = "table" => Len(invoked) = 1
    /\ pc = "regex" => Len(invoked) = 2
    /\ \A i \in 1..Len(invoked) :
        /\ invoked[i].tier = TierOrder[i]
        /\ \A j \in 1..(i - 1) : Failed(invoked[j])
        /\ invoked[i].accepted =>
            /\ i = Len(invoked)
            /\ pc \in {"done", "idle"}
            /\ result = invoked[i].val

\* The position tier raised, the table tier's candidate was accepted and
\* returned, and the regex tier was not invoked.
C1_Witness ==
    /\ pc = "done"
    /\ Len(invoked) = 2
    /\ invoked[1].kind = "raise"
    /\ invoked[2].accepted
    /\ doc.regex.kind = "return" /\ _is_reasonable(doc.regex.val)

RaisedOrHeaderOnly(e) ==
    e.kind = "raise" \/ (e.val.isList /\ LenRows(e.val) = 1)

\* C3: a candidate made of the header and a single item row is reasonable, and
\* when the earlier tiers raise or return the header alone, the call returns
\* that two-row candidate of the first later tier that produces it.
C3_TwoRowCandidateReturned ==
    \A i \in 1..Len(invoked) :
        ( /\ invoked[i].kind = "return"
          /\ invoked[i].val.isList
          /\ LenRows(invoked[i].val) = 2
          /\ \A j \in 1..(i - 1) : RaisedOrHeaderOnly(invoked[j]) ) =>
            /\ invoked[i].accepted
            /\ Len(invoked) = i
            /\ CallReturned
            /\ Elems(result) = <<CanonicalHeader, StubRow(TierOrder[i], 1)>>

\* C4: an exception raised inside a tier never leaves extract_table_rows and
\* never keeps the following tiers from being attempted: after a tier raised,
\* the next tier in the order is the one that runs, on the same document, and
\* after the last tier raised the call returns the header alone.
C4_ExceptionsContained ==
    /\ pc # "error"
    /\ \A i \in 1..Len(invoked) :
        /\ invoked[i].on = doc
        /\ invoked[i].kind = doc[invoked[i].tier].kind
        /\ invoked[i].val = doc[invoked[i].tier].val
        /\ (invoked[i].kind = "raise" /\ i < 3) =>
            \/ pc = TierOrder[i + 1] /\ Len(invoked) = i
            \/ Len(invoked) > i /\ invoked[i + 1].tier = TierOrder[i + 1]
        /\ (invoked[i].kind = "raise" /\ i = 3) =>
            /\ pc \in {"done", "idle"}
            /\ result = HeaderOnly

\* The position and the table tier raised and the regex tier's candidate was
\* returned.
C4_Witness ==
    /\ pc = "done"
    /\ Len(invoked) = 3
    /\ invoked[1].kind = "raise"
    /\ invoked[2].kind = "raise"
    /\ invoked[3].accepted
    /\ result = doc.regex.val

\* C5: whatever the tiers give (accepted, rejected, raised), the call returns a
\* non-empty sequence whose first element is the canonical 9-name header, and
\* exactly the header-only sequence when no tier's candidate is accepted.
C5_HeaderFirst ==
    CallReturned =>
        /\ result.isList
        /\ LenRows(result) >= 1
        /\ Len(Elems(result)[1]) = 9
        /\ Elems(result)[1] = CanonicalHeader
        /\ (\A i \in 1..Len(invoked) : Failed(invoked[i])) =>
            Elems(result) = <<CanonicalHeader>>

\* No tier was accepted: one raised, one gave a candidate that is too short,
\* one gave no list; the call returned.
C5_Witness ==
    /\ pc = "done"
    /\ Len(invoked) = 3
    /\ invoked[1].kind = "raise"
    /\ invoked[2].kind = "return" /\ invoked[2].val.isList /\ LenRows(invoked[2].val) = 4
    /\ invoked[3].kind = "return" /\ ~invoked[3].val.isList
    /\ Elems(result) = <<CanonicalHeader>>

----------------------------------------------------------------------------
(* Claims about the tiers *)

\* The rows r1 and r2 have the same trimmed (sku, upc) key.
SameKey(r1, r2) == Strip(r1[2]) = Strip(r2[2]) /\ Strip(r1[4]) = Strip(r2[4])

\* The indices of the rows of raw that are the first with their key.
FirstOccurrences(raw) ==
    {i \in 1..Len(raw) : \A j \in 1..(i - 1) : ~SameKey(raw[j], raw[i])}

\* The k-th smallest element of the set S of numbers.
Kth(S, k) == CHOOSE i \in S : Cardinality({j \in S : j <= i}) = k

\* A tier has run and returned.
TierReturned == tierRun.tier # "none" /\ tierRun.out.kind = "return"

\* C6: in the result of every tier no two item rows have the same trimmed
\* (sku, upc) key; the row retained for a key is the first one the tier built
\* with that key, and the retained rows are in the order in which the tier
\* built them.
C6_DedupeFirstInOrder ==
    TierReturned =>
        LET raw == tierRun.raw
            out == tierRun.out.val.items
            first == FirstOccurrences(raw)
        IN  /\ \A i, j \in 1..Len(out) : SameKey(out[i], out[j]) => i = j
            /\ Len(out) = Cardinality(first)
            /\ \A k \in 1..Len(out) : out[k] = raw[Kth(first, k)]

\* A tier built three rows, the third with the key of the first and other
\* cells, and returned the first two.
C6_Witness ==
    /\ TierReturned
    /\ Len(tierRun.raw) = 3
    /\ SameKey(tierRun.raw[1], tierRun.raw[3])
    /\ tierRun.raw[1] # tierRun.raw[3]
    /\ ~SameKey(tierRun.raw[1], tierRun.raw[2])
    /\ tierRun.out.val.items = <<tierRun.raw[1], tierRun.raw[2]>>

\* a is x rounded to two decimals, both in thousandths: the nearest hundredth,
\* and the even one of the two when x is halfway.
IsRound2(a, x) ==
    /\ a % 10 = 0
    /\ Abs(a - x) <= 5
    /\ Abs(a - x) = 5 => (a \div 10) % 2 = 0

\* Row i of the run was built from a known qty and a known rate, and no
\* amount was obtained from the document.
AmountToDerive(i) ==
    /\ tierRun.facts[i].qty # NoneV
    /\ tierRun.facts[i].rate # NoneV
    /\ tierRun.facts[i].obtained = NoneV

\* C7: in every row a tier builds from a known qty and a known rate without an
\* amount from the document, the amount is qty * rate rounded to two
\* decimals; the rows of the tier's result are rows it built.
C7_DerivedAmountRounded ==
    tierRun.tier # "none" =>
        /\ Len(tierRun.facts) = Len(tierRun.raw)
        /\ \A i \in 1..Len(tierRun.raw) :
              AmountToDerive(i) =>
                  /\ tierRun.raw[i][9].t = "num"
                  /\ IsRound2(tierRun.raw[i][9].n,
                              tierRun.facts[i].qty.n * tierRun.facts[i].rate.n)
        /\ TierReturned =>
              \A k \in 1..Len(tierRun.out.val.items) :
                  \E i \in 1..Len(tierRun.raw) : tierRun.out.val.items[k] = tierRun.raw[i]

\* A tier returned a row whose amount it derived from a product that is not a
\* whole number of hundredths.
C7_Witness ==
    /\ TierReturned
    /\ \E i \in 1..Len(tierRun.raw) :
          /\ AmountToDerive(i)
          /\ (tierRun.facts[i].qty.n * tierRun.facts[i].rate.n) % 10 # 0
          /\ \E k \in 1..Len(tierRun.out.val.items) :
                tierRun.out.val.items[k] = tierRun.raw[i]

----------------------------------------------------------------------------
(* Claims about the position tier *)

\* The position tier has run on a document it could open.
PositionTierRan == tierRun.tier = "position" /\ ~tierDoc.openRaises

\* The pages of the document on which the tier looks for bands.
BandPages == {p \in 1..Len(tierDoc.pages) :
                 /\ tierDoc.pages[p].words # <<>>
                 /\ tierDoc.pages[p].header.found
                 /\ tierDoc.pages[p].header.col_x # <<>>}

\* The line bands of page p, from top to bottom.
BandsOf(p) == LineBands(tierDoc.pages[p].words, tierDoc.pages[p].header.y2)

\* The words of a band from left to right (parser.py:216).
SortedArr(band) == StableSort(band.arr, [i \in 1..Len(band.arr) |-> band.arr[i].x0])

\* parser.py:216-229: `cells` of a band when line 231 is reached.
FiledCells(band, col_x) ==
    BandCells(col_x,
              Reclassify(_which_col(SortedArr(band)[Len(band.arr)].x0
                                        + SortedArr(band)[Len(band.arr)].x1, col_x),
                         SortedArr(band)[Len(band.arr)].text),
              SortedArr(band)[Len(band.arr)].text)

\* The column a word belongs to: the one whose window contains its
\* x-midpoint, after the hts/rate/amount reclassification.
ColumnOf(w, col_x) == Reclassify(_which_col(w.x0 + w.x1, col_x), w.text)

\* For each column, the texts of all the words of the band that belong to it,
\* from left to right.
WindowCells(band, col_x) ==
    [k \in {col_x[i].name : i \in 1..Len(col_x)} |->
        LET ws == SelectSeq(SortedArr(band), LAMBDA w : ColumnOf(w, col_x) = k)
        IN  [i \in 1..Len(ws) |-> ws[i].text]]

\* C23: in the position tier, for each line band below the header, every word
\* of the band is assigned to the column whose window contains its
\* x-midpoint: each column's cell holds all of the band's words whose
\* midpoints fall in that column's window (after the hts/rate/amount
\* reclassification).
C23_EveryWordAssigned ==
    PositionTierRan =>
        \A p \in BandPages : \A b \in 1..Len(BandsOf(p)) :
            FiledCells(BandsOf(p)[b], tierDoc.pages[p].header.col_x)
                = WindowCells(BandsOf(p)[b], tierDoc.pages[p].header.col_x)

\* The fields of a band read from the words in its column windows.
WindowFields(p, b) == BandFields(WindowCells(BandsOf(p)[b], tierDoc.pages[p].header.col_x))

\* The band carries a SKU; a UPC.
CarriesSku(p, b) == WindowFields(p, b).sku_s # <<>>

CarriesUpc(p, b) == WindowFields(p, b).upc_s # <<>>

\* C24: in the position tier every band below the header that carries a SKU
\* or a UPC produces exactly one line-item row (before deduplication), and
\* the bands with neither produce no row: the tier builds as many rows as the
\* document has bands carrying a SKU or a UPC.
C24_KeyedBandsGiveOneRowEach ==
    (PositionTierRan /\ tierRun.out.kind = "return") =>
        Len(tierRun.raw)
            = Cardinality({pb \in BandPages \X (1..Len(WordPool)) :
                              /\ pb[2] <= Len(BandsOf(pb[1]))
                              /\ (CarriesSku(pb[1], pb[2]) \/ CarriesUpc(pb[1], pb[2]))})

\* C25: in the position tier a band with no SKU and no UPC that follows a
\* band with a SKU and a UPC (whose row is then pending) is a continuation
\* line: the tier has built a row for the band above it, and the description
\* of that row is the description of the band above followed by the
\* brand/description text of the continuation line.
C25_ContinuationAppended ==
    (PositionTierRan /\ tierRun.out.kind = "return") =>
        \A p \in BandPages : \A b \in 1..(Len(BandsOf(p)) - 1) :
            (/\ CarriesSku(p, b) /\ CarriesUpc(p, b)
             /\ ~CarriesSku(p, b + 1) /\ ~CarriesUpc(p, b + 1)
             /\ WindowFields(p, b + 1).branddesc # <<>>)
            => \E i \in 1..Len(tierRun.raw) :
                  /\ tierRun.raw[i][2] = WindowFields(p, b).sku_s
                  /\ tierRun.raw[i][4] = WindowFields(p, b).upc_s
                  /\ StartsWith(tierRun.raw[i][7],
                                _clean_ws(_split_brand_desc(WindowFields(p, b).branddesc)[2]
                                              \o <<" ">> \o WindowFields(p, b + 1).branddesc))

----------------------------------------------------------------------------
(* Claims about the caller *)

\* C8: extract_data_from_pdf raises "No data rows found" exactly when the
\* extraction result is empty or header-only; for every result with at least
\* one item row it returns the table of the item rows under the header.
C8_NoDataIffAtMostOneRow ==
    appOut.status # "none" =>
        LET rows == appOut.input
            nodata == ~rows.isList \/ LenRows(rows) <= 1
        IN  /\ (appOut.status = "raised" /\ appOut.error = "No data rows found in PDF")
                <=> nodata
            /\ ~nodata =>
                /\ appOut.status = "returned"
                /\ appOut.columns = Elems(rows)[1]
                /\ appOut.data = Tail(Elems(rows))
                /\ Len(appOut.data) = LenRows(rows) - 1

\* extract_table_rows returned the header alone to extract_data_from_pdf,
\* which raised.
C8_Witness ==
    /\ caller = "app"
    /\ pc = "idle"
    /\ result = HeaderOnly
    /\ appOut.status = "raised"
    /\ appOut.input = HeaderOnly

\* extract_data_from_pdf returned the five rows under the header.
C8_WitnessReturned ==
    /\ caller = "app"
    /\ pc = "idle"
    /\ appOut.status = "returned"
    /\ Len(appOut.data) = 4

\* C9: two calls of extract_table_rows on the same document return identical
\* results, whatever calls were made in between and whatever a caller did with
\* the earlier results.
C9_SameDocSameResult ==
    (pc = "done" /\ prev.set /\ doc = prev.doc) => Elems(result) = prev.value

----------------------------------------------------------------------------
(* Claims about the validator *)

\* The checks of run_qa_checks, named by the issue each one reports.
Checks ==
    {"Missing columns", "non-positive Qty", "UPC-A check digit", "Qty*Rate != Amount",
     "missing Rate or Amount", "Grand total mismatch"}

\* The columns a check reads.
InputCols(k) ==
    CASE k = "Missing columns" -> {}
      [] k = "non-positive Qty" -> {"Qty"}
      [] k = "UPC-A check digit" -> {"UPC"}
      [] k = "Qty*Rate != Amount" -> {"Qty", "Rate", "Amount"}
      [] k = "missing Rate or Amount" -> {"Rate", "Amount"}
      [] k = "Grand total mismatch" -> {"Amount"}

\* The check k, evaluated by itself on the table, finds an issue.
Finds(k, df, meta) ==
    CASE k = "Missing columns" ->
            \E i \in 1..Len(REQUIRED_COLS) : REQUIRED_COLS[i] \notin df.columns
      [] k = "non-positive Qty" -> \E i \in 1..Len(df.rows) : BadQty(df.rows[i])
      [] k = "UPC-A check digit" -> \E i \in 1..Len(df.rows) : BadUpc(df.rows[i])
      [] k = "Qty*Rate != Amount" -> \E i \in 1..Len(df.rows) : BadAmt(df.rows[i])
      [] k = "missing Rate or Amount" ->
            \E i \in 1..Len(df.rows) : MissingPrices(df.rows[i])
      [] k = "Grand total mismatch" ->
            /\ HasTotal(meta)
            /\ _to_money(meta.total) # MoneyRaised
            /\ Actual(df) # NoneV
            /\ Abs(Actual(df).n - _to_money(meta.total).n) > 10

\* The report holds an issue of the check k.
Reported(k) == \E i \in 1..Len(qaOut.summary) : qaOut.summary[i].kind = k

C11_NeverRaises ==
    qaOut.kind # "none" =>
        /\ qaOut.kind = "report"
        /\ qaOut.ok <=> qaOut.summary = <<>>

\* The cell reads as a number at validator.py:81-82.
Known(v) == PriceNumeric(v) # NoneV

\* |qty * rate - amount| > 0.01 for a row whose rate and amount are known, a
\* quantity that is not a number being taken as 0 (validator.py:80); the
\* terms are in millionths.
OffByMoreThanACent(row) ==
    LET q == IF QtyNumeric(row.Qty) = NoneV THEN 0 ELSE QtyNumeric(row.Qty).n
    IN  Abs(q * PriceNumeric(row.Rate).n - PriceNumeric(row.Amount).n * 1000) > 10000

\* The number of rows the report gives for the check k, 0 when the report
\* has no issue of that check.
IssueCount(k) ==
    LET hits == {i \in 1..Len(qaOut.summary) : qaOut.summary[i].kind = k}
    IN  IF hits = {} THEN 0 ELSE qaOut.summary[CHOOSE i \in hits : TRUE].n

\* run_qa_checks returned a report of the value-level checks.
ValueChecksReported ==
    /\ qaOut.kind = "report"
    /\ ~Empty(qaIn.df)
    /\ Needed \subseteq qaIn.df.columns

TotalParses ==
    /\ HasTotal(qaIn.meta)
    /\ _to_money(qaIn.meta.total) # MoneyRaised

\* The grand total issue of the report names the two sums.
TotalIssueNames(actual, target) ==
    \E i \in 1..Len(qaOut.summary) :
        /\ qaOut.summary[i].kind = "Grand total mismatch"
        /\ qaOut.summary[i].actual = actual
        /\ qaOut.summary[i].target = target

\* The table of all nine columns with the rows rs, and the header total
\* "$100.00".
HundredDollarCase(rs) ==
    /\ qaIn.df.columns = {REQUIRED_COLS[i] : i \in 1..Len(REQUIRED_COLS)}
    /\ qaIn.df.rows = rs
    /\ qaIn.meta.total = <<"$", "1", "0", "0", ".", "0", "0">>

\* Two rows of the pool that pass every check, with the amounts 50.00 and
\* 40.00.
FiftyRow ==
    [Qty |-> Num(5), UPC |-> Str(<<"0", "1", "2", "3", "4", "5", "6", "7", "8", "9", "0", "5">>), Rate |-> Num(10000), Amount |-> Num(50000)]

FortyRow ==
    [Qty |-> Num(4), UPC |-> Str(<<"0", "3", "6", "0", "0", "0", "2", "9", "1", "4", "5", "2">>), Rate |-> Str(<<"$", "1", "0", ".", "0", "0">>), Amount |-> Str(<<"$", "4", "0", ".", "0", "0">>)]

----------------------------------------------------------------------------
(* Claims about _upc_ok *)

\* The string has exactly twelve characters, all of them digits.
TwelveDigits(u) == Len(u) = 12 /\ \A i \in 1..Len(u) : u[i] \in Digits

\* The check digit of the twelve digits d0..d11 (u[1]..u[12]):
\* (10 - ((3 * (d0+d2+d4+d6+d8+d10) + (d1+d3+d5+d7+d9)) mod 10)) mod 10.
CheckDigit(u) ==
    LET d(i) == DigitVal(u[i + 1])
    IN  (10 - ((3 * (d(0) + d(2) + d(4) + d(6) + d(8) + d(10))
                + (d(1) + d(3) + d(5) + d(7) + d(9))) % 10)) % 10

\* C14: _upc_ok(u) is true exactly when u is twelve digits d0..d11 with d11
\* equal to the check digit of d0..d10; every value that is not exactly twelve
\* digits fails; 036000291452 passes and 036000291453 fails.
C14_UpcOkIffCheckDigit ==
    upcOut # "none" =>
        LET u == PyStr(upcIn)
        IN  /\ upcOut = "True" <=> (TwelveDigits(u) /\ DigitVal(u[12]) = CheckDigit(u))
            /\ ~TwelveDigits(u) => upcOut = "False"
            /\ u = <<"0", "3", "6", "0", "0", "0", "2", "9", "1", "4", "5", "2">> => upcOut = "True"
            /\ u = <<"0", "3", "6", "0", "0", "0", "2", "9", "1", "4", "5", "3">> => upcOut = "False"

\* _upc_ok has accepted 036000291452.
C14_Witness ==
    /\ upcOut = "True"
    /\ upcIn = Str(<<"0", "3", "6", "0", "0", "0", "2", "9", "1", "4", "5", "2">>)

----------------------------------------------------------------------------
(* Claims about extract_header_meta and the text of the document *)

\* C15: the page_count extract_header_meta returns equals the number of pages
\* of the document, 0 for a document with no pages, whichever reader supplies
\* the page texts: _extract_all_text returns exactly one string per page.
C15_PageCountIsInputPages ==
    metaOut.done =>
        /\ Len(metaOut.pages) = Len(pdf.texts)
        /\ metaOut.meta.page_count = Len(pdf.texts)

\* The text contains the total pattern.
HasTotalPattern(text) == re_search(TotalPattern, text).lo # 0

\* What the total pattern captures in the text.
TotalCapture(text) == ReGroupOf(re_search(TotalPattern, text), text, "1")

\* C16: the total extract_header_meta returns is the capture of the total
\* pattern in the last page, by page index, whose text contains the pattern,
\* whatever the pages before it hold; it is "N/A" when no page contains the
\* pattern. The pages are the texts _extract_all_text gave, which are the
\* pages of the document when pdfplumber reads it.
C16_TotalFromLastPageWithPattern ==
    metaOut.done =>
        LET pages == metaOut.pages
            with == {k \in 1..Len(pages) : HasTotalPattern(pages[k])}
        IN  /\ pdf.plumber < 0 => pages = pdf.texts
            /\ with = {} => metaOut.meta.total = <<"N", "/", "A">>
            /\ with # {} =>
                 metaOut.meta.total
                     = TotalCapture(pages[CHOOSE k \in with : \A j \in with : j <= k])

\* A document of two pages that both hold a total, 1,234.56 and then 10.00:
\* the second one is returned.
C16_Witness ==
    /\ metaOut.done
    /\ Len(metaOut.pages) = 2
    /\ TotalCapture(metaOut.pages[1]) = <<"1", ",", "2", "3", "4", ".", "5", "6">>
    /\ TotalCapture(metaOut.pages[2]) = <<"1", "0", ".", "0", "0">>
    /\ metaOut.meta.total = <<"1", "0", ".", "0", "0">>

\* The text of page one as extract_header_meta sees it (parser.py:66).
FirstPage == IF metaOut.pages # <<>> THEN metaOut.pages[1] ELSE <<>>

\* The patterns of the list that match the text.
Matching(patterns, text) == {k \in 1..Len(patterns) : re_search(patterns[k], text).lo # 0}

\* What the first pattern of the list that matches the text captures, with
\* the whitespace around it removed.
FirstCapture(patterns, text) ==
    LET k == CHOOSE i \in Matching(patterns, text) : \A j \in Matching(patterns, text) : i <= j
    IN  Strip(ReGroupOf(re_search(patterns[k], text), text, "1"))

\* The four fields read on page one, each with its list of patterns.
PageOneFields ==
    {<<metaOut.meta.po_number, PoPatterns>>, <<metaOut.meta.vendor_number, VendorPatterns>>,
     <<metaOut.meta.ship_by_date, ShipByPatterns>>, <<metaOut.meta.payment_terms, TermsPatterns>>}

\* C17 as stated: each of po_number, vendor_number, ship_by_date and
\* payment_terms is "N/A" when no pattern of its list matches the text of page
\* one and is otherwise the capture of the first pattern of the list that
\* matches; total is "N/A" when no page matches the total pattern.
C17_FirstPatternCaptureOrNA ==
    metaOut.done =>
        /\ \A f \in PageOneFields :
              f[1] = IF Matching(f[2], FirstPage) = {} THEN <<"N", "/", "A">>
                     ELSE FirstCapture(f[2], FirstPage)
        /\ (\A k \in 1..Len(metaOut.pages) : ~HasTotalPattern(metaOut.pages[k]))
              => metaOut.meta.total = <<"N", "/", "A">>

\* C17, amended: each of the four fields is "N/A" when no pattern of its list
\* matches the text of page one; otherwise it is the capture of the first
\* pattern of the list that matches, stripped of the whitespace around it, or
\* "N/A" when nothing is left of the capture. total is "N/A" when no page
\* matches the total pattern.
C17_FirstPatternCaptureOrNAIfBlank ==
    metaOut.done =>
        /\ \A f \in PageOneFields :
              f[1] = IF Matching(f[2], FirstPage) = {} THEN <<"N", "/", "A">>
                     ELSE IF FirstCapture(f[2], FirstPage) = <<>> THEN <<"N", "/", "A">>
                     ELSE FirstCapture(f[2], FirstPage)
        /\ (\A k \in 1..Len(metaOut.pages) : ~HasTotalPattern(metaOut.pages[k]))
              => metaOut.meta.total = <<"N", "/", "A">>

\* Page one matches both PO patterns, the second one earlier in the text: the
\* capture of the first pattern is returned, and the fields with no match are
\* "N/A".
C17_Witness ==
    /\ metaOut.done
    /\ Matching(PoPatterns, FirstPage) = {1, 2}
    /\ metaOut.meta.po_number = <<"8", "9", "0", "1", "2">>
    /\ metaOut.meta.vendor_number = <<"N", "/", "A">>

\* C18: the text of the example, fed to the regex tier, yields exactly one
\* row: qty 2, sku ABCD12AB34-12-X1234-ABCDE, dev G1, upc 012345678901, hts
\* "", brand ACME, description Cool Thing, rate 7.5, amount 15.0.
C18_ExampleYieldsOneRow ==
    (regexOut.done /\ pdf = PdfDoc(<<ExampleItemText>>, -1, -1)) =>
        regexOut.out =
            Returned(WithHeader(
                <<ItemRow(Num(2),
                          <<"A", "B", "C", "D", "1", "2", "A", "B", "3", "4", "-", "1", "2", "-", "X", "1", "2", "3", "4", "-", "A", "B", "C", "D", "E">>,
                          <<"G", "1">>,
                          <<"0", "1", "2", "3", "4", "5", "6", "7", "8", "9", "0", "1">>,
                          <<>>, <<"A", "C", "M", "E">>,
                          <<"C", "o", "o", "l", " ", "T", "h", "i", "n", "g">>,
                          Num(7500), Num(15000))>>))

----------------------------------------------------------------------------
(* Claims about setup_logging and /api/convert *)

\* C19: across any sequence or interleaving of setup_logging calls in one
\* process, the logging configuration of each module is applied at most once,
\* and a module's _configured flag is set only once its configuration has
\* been applied.
C19_ConfiguredAtMostOnce ==
    \A m \in LogModules :
        /\ applied[m] <= 1
        /\ _configured[m] => applied[m] >= 1

\* C20: /api/convert requests do not interfere: any two requests that were
\* answered 200 have different download URLs, and the output file of every
\* request answered 200 holds the workbook made from that request's upload,
\* whatever the file names and the timing of the requests.
C20_RequestsDoNotInterfere ==
    \A r1 \in Requests :
        reqs[r1].at = "200" =>
            /\ \A r2 \in Requests \ {r1} :
                  reqs[r2].at = "200" => download_url(r1) # download_url(r2)
            /\ \E f \in outputs :
                  /\ f.ts = download_url(r1).ts
                  /\ f.name = download_url(r1).name
                  /\ f.of = r1

\* A request that has been answered.
Handled(r) == reqs[r].at \in {"400", "200", "500"}

\* C21: after a conversion request has been handled, the uploaded PDF that
\* the request saved is no longer present in the upload folder, and once
\* every request received has been handled the folder holds the same files
\* as before the requests (none).
C21_UploadGoneAfterRequest ==
    /\ \A r \in Requests : Handled(r) => \A f \in uploads : f.of # r
    /\ (\A r \in Requests : Handled(r) \/ reqs[r].at = "none") => uploads = {}

----------------------------------------------------------------------------
(* Claims about the workbook *)

\* The values of a list, each once, in the order in which they are first seen.
FirstSeen(products) ==
    LET first == {i \in 1..Len(products) : \A j \in 1..(i - 1) : products[j] # products[i]}
    IN  [k \in 1..Cardinality(first) |->
            products[CHOOSE i \in first : Cardinality({j \in first : j < i}) = k - 1]]

\* C22: the size sheet written by write_to_excel has one row per product, and
\* its rows are in the order in which each product is first seen in the input
\* rows.
C22_OneRowPerProductFirstSeenOrder ==
    sheetOut.done =>
        [i \in 1..Len(sheetOut.rows) |-> sheetOut.rows[i].Product] = FirstSeen(Products(sheetIn))

----------------------------------------------------------------------------
(* Claims about the header line and the line bands *)

\* _find_header_and_columns found a header line.
HeaderLineFound == hdrOut.done /\ hdrOut.out.found

\* The window of a column of the result; the result has it.
Window(name) == RangeOf(hdrOut.out.col_x, name)

HasWindow(name) == InRanges(hdrOut.out.col_x, name)

\* The largest of a non-empty set of numbers.
Largest(S) == CHOOSE x \in S : \A y \in S : y <= x

\* The left edge of the rate column, or of the amount column when there is no
\* rate column.
PriceLeftEdge == IF HasWindow("rate") THEN Window("rate").left ELSE Window("amount").left

\* C26 as stated: the brand/description window runs from the right edge of the
\* rightmost structural column among upc, hts, dev and sku to the left edge of
\* the rate column (or of the amount column when there is no rate column).
C26_WindowFromRightmostStructural ==
    HeaderLineFound =>
        /\ HasWindow("branddesc")
        /\ Window("branddesc").left
               = Largest({Window(n).right : n \in {m \in {"upc", "hts", "dev", "sku"} : HasWindow(m)}})
        /\ Window("branddesc").right = PriceLeftEdge

\* C26 as amended: the brand/description window runs from the right edge of
\* the upc column, or from that of the hts column when it lies further right,
\* to the left edge of the rate column (or of the amount column when there is
\* no rate column); the dev and sku columns do not move it.
C26_WindowFromUpcOrHts ==
    HeaderLineFound =>
        /\ HasWindow("branddesc")
        /\ HasWindow("upc")
        /\ Window("branddesc").left
               = Largest({Window(n).right : n \in {m \in {"upc", "hts"} : HasWindow(m)}})
        /\ Window("branddesc").right = PriceLeftEdge

\* A header line with the hts column right of the upc column and the sku
\* column right of both: the window starts at the right edge of hts.
C26_Witness ==
    /\ HeaderLineFound
    /\ HasWindow("hts")
    /\ HasWindow("sku")
    /\ Window("hts").right > Window("upc").right
    /\ Window("sku").right > Window("hts").right
    /\ Window("branddesc").left = Window("hts").right

\* The position in the page's word list of the word w.
WordIndex(w) == CHOOSE i \in 1..Len(bandIn) : bandIn[i] = w

\* The vertical centre of a word, doubled.
Cy2(w) == w.top + w.bottom

\* The words of the page in top-to-bottom order, those the tier bands (below
\* the header line) or all of them.
TopToBottom(words) == StableSort(words, [i \in 1..Len(words) |-> Cy2(words[i])])

BelowHeader(words) == SelectSeq(words, LAMBDA w : Cy2(w) > BandHeaderY2)

\* The bands as sets of words.
Grouping(bands) == {{b.arr[i] : i \in 1..Len(b.arr)} : b \in {bands[k] : k \in 1..Len(bands)}}

GreedyInGivenOrder(bands, words, tol2) ==
    /\ \A i \in 1..Len(words) :
          Cardinality({k \in 1..Len(bands) :
                          \E j \in 1..Len(bands[k].arr) : bands[k].arr[j] = words[i]}) = 1
    /\ \A k \in 1..Len(bands) :
          /\ bands[k].arr # <<>>
          /\ bands[k].y2 = Cy2(bands[k].arr[1])
          /\ \A j \in 1..Len(bands[k].arr) :
                /\ \E i \in 1..Len(words) : words[i] = bands[k].arr[j]
                /\ j > 1 => WordIndex(bands[k].arr[j - 1]) < WordIndex(bands[k].arr[j])
                /\ Abs(bands[k].y2 - Cy2(bands[k].arr[j])) <= tol2
                /\ \A m \in 1..Len(bands) :
                      (/\ m # k
                       /\ WordIndex(bands[m].arr[1]) < WordIndex(bands[k].arr[j])
                       /\ Abs(bands[m].y2 - Cy2(bands[k].arr[j])) <= tol2)
                      => (j > 1 /\ WordIndex(bands[k].arr[1]) < WordIndex(bands[m].arr[1]))
    /\ \A k \in 1..(Len(bands) - 1) : bands[k].y2 <= bands[k + 1].y2

----------------------------------------------------------------------------
(* Claims about the rows of a table *)

\* The item rows the table tier returned.
TableOutRows == IF tabOut.out.kind = "return" THEN tabOut.out.val.items ELSE <<>>

\* The rows of the table under its header row.
TableInRows == Tail(tabIn.pages[1].tables[1])

\* The row of the table that the item row o was made of: the one whose first
\* cell is o's quantity.
TableRowOf(o) ==
    TableInRows[CHOOSE i \in 1..Len(TableInRows) : OrEmpty(_to_int(TableInRows[i][1])) = o[1]]

\* The cell c is in the brand/description text of the item row o.
InBrandDesc(o, c) == c = o[6] \/ c = o[7]

\* The cell c was read as the qty, sku, dev_code, rate or amount of o.
ReadAsField(o, c) ==
    \/ o[1] = OrEmpty(_to_int(c))
    \/ o[2] = c
    \/ o[3] = c
    \/ o[8] = OrEmpty(_to_float(c))
    \/ o[9] = OrEmpty(_to_float(c))

\* C28: in the table tier the last two cells of a row are read as rate and
\* amount, and no cell that is read as qty, sku, dev_code, rate or amount is
\* also part of the row's brand/description text, whatever the number of cells
\* of the row.
C28_FieldCellsNotInBrandDesc ==
    tabOut.done =>
        \A j \in 1..Len(TableOutRows) :
            LET o == TableOutRows[j]
                r == TableRowOf(o)
            IN  /\ Len(r) >= 2 => /\ o[8] = OrEmpty(_to_float(r[Len(r) - 1]))
                                   /\ o[9] = OrEmpty(_to_float(r[Len(r)]))
                /\ \A k \in 1..Len(r) : ~(InBrandDesc(o, r[k]) /\ ReadAsField(o, r[k]))

\* C29: every item row in the result of a tier has a non-empty SKU and a
\* non-empty UPC: a table row without them never becomes an item row.
C29_ItemRowsHaveSkuAndUpc ==
    tabOut.done =>
        \A j \in 1..Len(TableOutRows) :
            /\ Strip(TableOutRows[j][2]) # <<>>
            /\ Strip(TableOutRows[j][4]) # <<>>

----------------------------------------------------------------------------
(* Claims about _dedupe by itself *)

\* The trimmed SKU and UPC of a row.
TrimmedPair(r) == <<Strip(r[2]), Strip(r[4])>>

\* C30: _dedupe drops a row only if an earlier row has the same trimmed SKU and
\* the same trimmed UPC, so that its output has exactly one row for every
\* distinct trimmed (sku, upc) pair of its input.
C30_OneRowPerDistinctPair ==
    dedOut.done =>
        /\ \A i \in 1..Len(dedIn) :
              (\A j \in 1..Len(dedOut.out) : dedOut.out[j] # dedIn[i])
              => \E h \in 1..(i - 1) : TrimmedPair(dedIn[h]) = TrimmedPair(dedIn[i])
        /\ \A i \in 1..Len(dedIn) :
              Cardinality({j \in 1..Len(dedOut.out) :
                              TrimmedPair(dedOut.out[j]) = TrimmedPair(dedIn[i])}) = 1

====
